---- MODULE Spec2Model ----
(***************************************************************************)
(* homebridge-adguardhome-plus: the switch groups (platformAccessory.ts),  *)
(* the AdGuard Home client and its cache (adguardhome.ts) and the polling  *)
(* loop (platform.ts), as a state machine.                                 *)
(*                                                                         *)
(* Strings of the program that the code takes apart (client names, tags,   *)
(* selector tokens) are sequences of one-character strings; strings that   *)
(* are only compared (service ids, states) are TLA+ strings.               *)
(***************************************************************************)
EXTENDS Integers, Sequences, FiniteSets, TLC

VARIABLES
    config,     \* config[g]: the immutable configuration of switch group g
    group,      \* group[g]: the mutable fields of switch group g
    latest,     \* AdGuardHomeServer.latest: the cache of the last fetched fields
    server,     \* the configuration held by the AdGuard Home server
    fetches,    \* the getCurrentStatus calls in flight, oldest first
    timerFile,  \* timerFile[g]: the content of the timer file of group g
    clientStore,\* clientStore[name]: the saved configuration file of a client, if any
    unlinks,    \* the client files whose fs.unlink is under way
    timers,     \* the setTimeout timers of startNewTimer that are pending
    procs,      \* the handler invocations suspended on a file or network operation
    deferred,   \* deferred[g]: the setTimeout(() => updateHomeKit(currentState)) pending
    toggles,    \* the user's toggles so far, each with the state it met and how it ended
    arms,       \* arms[g]: the calls of startNewTimer on group g so far
    lastDisable,\* lastDisable[name]: what the server held for a client with blocking on
                \* when the last mutation, a disable that succeeded, began
    now,        \* the clock, in milliseconds
    probe       \* a call of a pure function under test: its inputs, its result

vars == <<config, group, latest, server, fetches, timerFile, clientStore, unlinks,
          timers, procs, deferred, toggles, arms, lastDisable, now, probe>>

\* the variables of the timers and of the mutation protocol
handlerVars == <<timerFile, clientStore, unlinks, timers, procs, deferred, toggles, arms,
                 lastDisable, now>>

----------------------------------------------------------------------------
(* Bounds of the model *)

\* longest list of service ids drawn as an input
MaxLen == 2

\* getCurrentStatus calls of the polling loop in flight at once
MaxFetches == 2

\* handler invocations suspended at once
MaxProcs == 2

\* user toggles in one run
MaxToggles == 1

\* minutes the clock advances in one run
MaxClockSteps == 1

----------------------------------------------------------------------------
(* Values *)

BLOCKING == "Blocking"
DISABLED == "Disabled"
INCONSISTENT == "Inconsistent"
UNAVAILABLE == "Unavailable"

AdGuardHomeState == {BLOCKING, DISABLED, INCONSISTENT, UNAVAILABLE}

\* service ids
Services == {"ads", "tracking"}

\* client names, a tag and selector tokens, as character sequences
Kid == <<"k", "i", "d">>
Tv1 == <<"t", "v", "1">>
Family == <<"f", "a", "m", "i", "l", "y">>
AtFamily == <<"@">> \o Family
TvStar == <<"t", "v", "*">>

ClientNames == {Kid, Tv1}

\* Array.prototype.includes
Includes(list, x) == \E i \in 1..Len(list) : list[i] = x

\* all sequences over S of length at most n
SeqsUpTo(S, n) == UNION {[1..k -> S] : k \in 0..n}

ServiceLists == SeqsUpTo(Services, MaxLen)

\* a client record of the server's 'clients' answer; on is the set of the
\* boolean fields that are true, ss the optional nested safe_search object
ClientConfig(name, tags, on, ss, bs) ==
    [name |-> name,
     tags |-> tags,
     use_global_settings |-> "use_global_settings" \in on,
     use_global_blocked_services |-> "use_global_blocked_services" \in on,
     filtering_enabled |-> "filtering_enabled" \in on,
     parental_enabled |-> "parental_enabled" \in on,
     safebrowsing_enabled |-> "safebrowsing_enabled" \in on,
     safesearch_enabled |-> "safesearch_enabled" \in on,
     safe_search |-> ss,
     blocked_services |-> bs]

FlagNames == {"use_global_settings", "use_global_blocked_services", "filtering_enabled",
              "parental_enabled", "safebrowsing_enabled", "safesearch_enabled"}

\* class AdGuardStatus; enabled is "undefined" when the status call was not requested
AdGuardStatus(avail, err, en, bs, cl) ==
    [isAvailable |-> avail, error |-> err, enabled |-> en, blocked_services |-> bs, clients |-> cl]

\* new AdGuardStatus()
NewAdGuardStatus == AdGuardStatus(FALSE, "none", "undefined", <<>>, <<>>)

----------------------------------------------------------------------------
(* adguardhome.ts: pure helpers *)

\* wildcardMatch: the regular expression ^w$ with every * of the token turned into .*
\* and every ? into . ; all other characters match themselves
RECURSIVE wildcardMatch(_, _)
wildcardMatch(wildcard, str) ==
    IF wildcard = <<>> THEN str = <<>>
    ELSE IF Head(wildcard) = "*"
         THEN wildcardMatch(Tail(wildcard), str)
              \/ (str # <<>> /\ wildcardMatch(wildcard, Tail(str)))
         ELSE /\ str # <<>>
              /\ (Head(wildcard) = "?" \/ Head(wildcard) = Head(str))
              /\ wildcardMatch(Tail(wildcard), Tail(str))

\* a loop that pushes every filtered cache entry, listed already or not
pushNames_All(newClientList, matched, i) ==
    newClientList \o [j \in 1..(Len(matched) - i + 1) |-> matched[i + j - 1].name]

\* the push-if-absent loop over the filtered cache entries
RECURSIVE pushNames(_, _, _)
pushNames(newClientList, matched, i) ==
    IF i > Len(matched) THEN newClientList
    ELSE pushNames(IF Includes(newClientList, matched[i].name) THEN newClientList
                   ELSE Append(newClientList, matched[i].name),
                   matched, i + 1)

\* the clientList.forEach loop of expandTags
RECURSIVE expandLoop(_, _, _, _)
expandLoop(cached, clientList, i, newClientList) ==
    IF i > Len(clientList) THEN newClientList
    ELSE LET c == clientList[i]
             next == IF c # <<>> /\ Head(c) = "@"
                     THEN pushNames(newClientList,
                                    SelectSeq(cached, LAMBDA cstat : Includes(cstat.tags, Tail(c))), 1)
                     ELSE IF Includes(c, "*")
                     THEN pushNames(newClientList,
                                    SelectSeq(cached, LAMBDA cstat : wildcardMatch(c, cstat.name)), 1)
                     ELSE IF Includes(newClientList, c) THEN newClientList
                          ELSE Append(newClientList, c)
         IN expandLoop(cached, clientList, i + 1, next)

\* expandTags, reading the cached client list this.latest.clients
expandTags(cached, clientList) == expandLoop(cached, clientList, 1, <<>>)

\* isBlockingEnabled without the parental_enabled line
isBlockingEnabled_NoParental(clientStatus, ignoreServices) ==
    \/ clientStatus.use_global_settings = TRUE
    \/ (~ignoreServices /\ clientStatus.use_global_blocked_services = TRUE)
    \/ (~ignoreServices /\ Len(clientStatus.blocked_services) > 0)
    \/ clientStatus.filtering_enabled = TRUE
    \/ clientStatus.safebrowsing_enabled = TRUE
    \/ clientStatus.safesearch_enabled = TRUE
    \/ clientStatus.safe_search = "on"

\* isBlockingEnabled(clientStatus, ignoreServices)
isBlockingEnabled(clientStatus, ignoreServices) ==
    \/ clientStatus.use_global_settings = TRUE
    \/ (~ignoreServices /\ clientStatus.use_global_blocked_services = TRUE)
    \/ (~ignoreServices /\ Len(clientStatus.blocked_services) > 0)
    \/ clientStatus.filtering_enabled = TRUE
    \/ clientStatus.parental_enabled = TRUE
    \/ clientStatus.safebrowsing_enabled = TRUE
    \/ clientStatus.safesearch_enabled = TRUE
    \/ clientStatus.safe_search = "on"

----------------------------------------------------------------------------
(* platformAccessory.ts: state derivation *)

isGlobal(cfg) == Len(cfg.clients) = 0

isSelectServices(cfg) == Len(cfg.services) > 0

isConsistentState(state) == state \in {BLOCKING, DISABLED}

isValidState(state) == state \in {BLOCKING, DISABLED, INCONSISTENT, UNAVAILABLE}

toAGHState(bState) == IF bState THEN BLOCKING ELSE DISABLED

\* the subset.forEach loop of containsAllOrNone, acc = [all, none]
RECURSIVE containsLoop(_, _, _, _)
containsLoop(superset, subset, i, acc) ==
    IF i > Len(subset) THEN acc
    ELSE containsLoop(superset, subset, i + 1,
                      IF Includes(superset, subset[i])
                      THEN [acc EXCEPT !.none = FALSE]
                      ELSE [acc EXCEPT !.all = FALSE])

\* containsAllOrNone testing 'none' before 'all'
containsAllOrNone_NoneFirst(superset, subset) ==
    LET acc == containsLoop(superset, subset, 1, [all |-> TRUE, none |-> TRUE])
    IN IF acc.none THEN -1 ELSE IF acc.all THEN 1 ELSE 0

containsAllOrNone(superset, subset) ==
    LET acc == containsLoop(superset, subset, 1, [all |-> TRUE, none |-> TRUE])
    IN IF acc.all THEN 1 ELSE IF acc.none THEN -1 ELSE 0

\* status.clients.find((c) => c.name === client): the index of the first, 0 for undefined
findClient(clients, name) ==
    IF \E i \in 1..Len(clients) : clients[i].name = name
    THEN CHOOSE i \in 1..Len(clients) :
            /\ clients[i].name = name
            /\ \A j \in 1..(i - 1) : clients[j].name # name
    ELSE 0

\* clientServiceCheck where a client missing from the snapshot is skipped
clientServiceCheck_SkipMissing(acc, clients, client, services) ==
    LET k == findClient(clients, client)
    IN IF k # 0
       THEN LET ccomp == containsAllOrNone(clients[k].blocked_services, services)
            IN [all |-> acc.all /\ (ccomp > 0), none |-> acc.none /\ (ccomp < 0)]
       ELSE acc

\* what one client adds to (all, none) in a group with service selectors
clientServiceCheck(acc, clients, client, services) ==
    LET k == findClient(clients, client)
    IN IF k # 0
       THEN LET ccomp == containsAllOrNone(clients[k].blocked_services, services)
            IN [all |-> acc.all /\ (ccomp > 0), none |-> acc.none /\ (ccomp < 0)]
       ELSE [acc EXCEPT !.all = FALSE]

\* what one client adds to (all, none) in a group without service selectors
clientBlockingCheck(acc, clients, client) ==
    LET k == findClient(clients, client)
    IN IF k # 0
       THEN LET blocking == isBlockingEnabled(clients[k], FALSE)
            IN [all |-> acc.all /\ blocking, none |-> acc.none /\ ~blocking]
       ELSE [acc EXCEPT !.all = FALSE]

\* the two clientList.forEach loops of getStateFromAdGuardStatus
RECURSIVE clientLoop(_, _, _, _, _)
clientLoop(cfg, status, clientList, i, acc) ==
    IF i > Len(clientList) THEN acc
    ELSE clientLoop(cfg, status, clientList, i + 1,
                    IF isSelectServices(cfg)
                    THEN clientServiceCheck(acc, status.clients, clientList[i], cfg.services)
                    ELSE clientBlockingCheck(acc, status.clients, clientList[i]))

\* globalCmp with an unset protection flag read as 'some'
globalCmp_UnsetIsSome(cfg, status) ==
    IF isSelectServices(cfg)
    THEN containsAllOrNone(status.blocked_services, cfg.services)
    ELSE IF status.enabled = "true" THEN 1 ELSE IF status.enabled = "false" THEN -1 ELSE 0

\* cmp of a global group: -1 none, 0 some, 1 all
globalCmp(cfg, status) ==
    IF isSelectServices(cfg)
    THEN containsAllOrNone(status.blocked_services, cfg.services)
    ELSE IF status.enabled = "true" THEN 1 ELSE -1

\* cmp of a client-scoped group; the selectors are expanded against the cache
clientCmp(cfg, cached, status) ==
    LET clientList == expandTags(cached, cfg.clients)
        acc == clientLoop(cfg, status, clientList, 1, [all |-> TRUE, none |-> TRUE])
    IN IF acc.all THEN 1 ELSE IF acc.none THEN -1 ELSE 0

\* getStateFromAdGuardStatus without the availability test
getStateFromAdGuardStatus_NoAvailTest(cfg, cached, status) ==
    LET cmp == IF isGlobal(cfg) THEN globalCmp(cfg, status)
               ELSE clientCmp(cfg, cached, status)
    IN IF cmp < 0 THEN DISABLED
       ELSE IF cmp > 0 THEN BLOCKING
       ELSE INCONSISTENT

getStateFromAdGuardStatus(cfg, cached, status) ==
    IF status.isAvailable # TRUE THEN UNAVAILABLE
    ELSE LET cmp == IF isGlobal(cfg) THEN globalCmp(cfg, status)
                    ELSE clientCmp(cfg, cached, status)
         IN IF cmp < 0 THEN DISABLED
            ELSE IF cmp > 0 THEN BLOCKING
            ELSE INCONSISTENT

----------------------------------------------------------------------------
(* platformAccessory.ts: the state fields of a group and their setters *)

\* set targetState(value)
\* the setter without its test of the value: any of the four states is taken
setTargetState_AnyValid(gs, value) ==
    IF isValidState(value) THEN [gs EXCEPT !._targetState = value] ELSE gs

setTargetState(gs, value) ==
    IF isConsistentState(value) THEN [gs EXCEPT !._targetState = value] ELSE gs

\* set currentState assigning the target whatever the value
setCurrentState_TargetToo(gs, value) ==
    IF isValidState(value)
    THEN [gs EXCEPT !._targetState = value, !._currentState = value]
    ELSE gs

\* set currentState leaving the target alone
setCurrentState_CurrentOnly(gs, value) ==
    IF isValidState(value) THEN [gs EXCEPT !._currentState = value] ELSE gs

\* set currentState(value)
setCurrentState(gs, value) ==
    IF isValidState(value)
    THEN [setTargetState(gs, value) EXCEPT !._currentState = value]
    ELSE gs

\* updateHomeKit showing the state as the target too
updateHomeKit_TargetIsState(gs, state, target) ==
    LET g1 == setTargetState(gs, state)
        g2 == [g1 EXCEPT !.switches = [main |-> state, target |-> state]]
    IN setCurrentState(g2, state)

\* updateHomeKit(state, target): every switch of the group shows (state, target)
updateHomeKit(gs, state, target) ==
    LET g1 == setTargetState(gs, target)
        g2 == [g1 EXCEPT !.switches = [main |-> state, target |-> target]]
    IN setCurrentState(g2, state)

\* update(currentStatus)
update(gs, cfg, cached, currentStatus) ==
    LET g1 == [gs EXCEPT !._currentStatus = currentStatus]
        newState == getStateFromAdGuardStatus(cfg, cached, currentStatus)
    IN IF newState # g1._currentState
       THEN updateHomeKit(g1, newState, newState)
       ELSE g1

\* the constructor: the fields of a new group built from initialStatus
newGroup(cfg, cached, initialStatus) ==
    LET g0 == [_currentStatus |-> initialStatus,
               _targetState |-> toAGHState(cfg.defaultState),
               _currentState |-> UNAVAILABLE,
               _currentTimer |-> 0,
               switches |-> [main |-> UNAVAILABLE, target |-> toAGHState(cfg.defaultState)]]
        g1 == setCurrentState(g0, getStateFromAdGuardStatus(cfg, cached, initialStatus))
    IN updateHomeKit(g1, g1._currentState, g1._targetState)

----------------------------------------------------------------------------
(* The server, and adguardhome.ts: getCurrentStatus *)

\* what the server answers to 'status', 'blocked_services/get' and 'clients'
ServerState(enabled, ids, clients) ==
    [protection_enabled |-> enabled, ids |-> ids, clients |-> clients]

\* a server nobody has configured
NoServer == ServerState(FALSE, <<>>, <<>>)

\* the three calls getCurrentStatus can make
Calls == {"status", "blocked_services", "clients"}

\* a loop asking for the global enabled flag for every global group
needsCall_StatusForGlobal(cfg, call) ==
    IF isGlobal(cfg)
    THEN call = "status" \/ (isSelectServices(cfg) /\ call = "blocked_services")
    ELSE call = "clients"

\* the call a group makes the polling loop ask for
needsCall(cfg, call) ==
    IF isGlobal(cfg)
    THEN IF isSelectServices(cfg) THEN call = "blocked_services" ELSE call = "status"
    ELSE call = "clients"

\* the calls one tick of pollAdGuardStatusLoop asks for
pollFlags(cfgs) == {call \in Calls : \E g \in DOMAIN cfgs : needsCall(cfgs[g], call)}

\* the .then of one call: the answer stored in the snapshot or in the cache
storeAnswer(status, call, srv) ==
    IF call = "status"
    THEN [status EXCEPT !.enabled = IF srv.protection_enabled THEN "true" ELSE "false"]
    ELSE IF call = "blocked_services"
    THEN [status EXCEPT !.blocked_services = srv.ids]
    ELSE [status EXCEPT !.clients = srv.clients]

\* getCurrentStatus(...): the start of a fetch, its requested calls all in flight
newFetch(flags) ==
    [pending |-> flags,
     currentStatus |-> AdGuardStatus(TRUE, "none", "undefined", <<>>, <<>>)]

\* a .catch that records the error and leaves the snapshot marked available
failedStatus_StillAvailable(status) == [status EXCEPT !.error = "error"]

\* the .catch of Promise.all: the snapshot of a fetch one of whose calls failed
failedStatus(status) == [status EXCEPT !.isAvailable = FALSE, !.error = "error"]

RemoveAt(seq, i) == SubSeq(seq, 1, i - 1) \o SubSeq(seq, i + 1, Len(seq))

\* updateSwitchGroups(currentStatus): update() on every group in turn
updateSwitchGroups(groups, cfgs, cached, currentStatus) ==
    [g \in DOMAIN groups |-> update(groups[g], cfgs[g], cached, currentStatus)]

\* the snapshot of getCurrentStatus(true, true, true) at startup when the calls in
\* 'answered' were answered, and a call outside it, if any, failed
RECURSIVE storeAnswers(_, _, _)
storeAnswers(status, answered, srv) ==
    IF answered = {} THEN status
    ELSE LET call == CHOOSE c \in answered : TRUE
         IN storeAnswers(storeAnswer(status, call, srv), answered \ {call}, srv)

initialStatus(srv, answered) ==
    LET st == storeAnswers(newFetch(Calls).currentStatus, answered, srv)
    IN IF answered = Calls THEN st ELSE failedStatus(st)

\* the cache after that first fetch
initialLatest(srv, answered) == storeAnswers(NewAdGuardStatus, answered, srv)

\* discoverDevices(initialStatus): one group per configured switch
discoverDevices(cfgs, cached, status) ==
    [g \in DOMAIN cfgs |-> newGroup(cfgs[g], cached, status)]

\* the setInterval callback of pollAdGuardStatusLoop, up to its await
PollTick ==
    /\ Len(fetches) < MaxFetches
    /\ pollFlags(config) # {}
    /\ fetches' = Append(fetches, newFetch(pollFlags(config)))
    /\ UNCHANGED <<config, group, latest, server, probe>>
    /\ UNCHANGED handlerVars

\* a call of fetch i is answered; with the last answer the snapshot goes to the groups
FetchAnswer(i, call) ==
    /\ i \in DOMAIN fetches
    /\ call \in fetches[i].pending
    /\ LET status == storeAnswer(fetches[i].currentStatus, call, server)
           left == fetches[i].pending \ {call}
       IN /\ latest' = storeAnswer(latest, call, server)
          /\ IF left = {}
             THEN /\ group' = updateSwitchGroups(group, config, latest'.clients, status)
                  /\ fetches' = RemoveAt(fetches, i)
             ELSE /\ fetches' = [fetches EXCEPT ![i] = [pending |-> left, currentStatus |-> status]]
                  /\ UNCHANGED group
    /\ UNCHANGED <<config, server, probe>>
    /\ UNCHANGED handlerVars

\* a call of fetch i fails or times out: the snapshot, marked unavailable, goes to the
\* groups at once and later answers to this fetch are dropped
FetchFail(i, call) ==
    /\ i \in DOMAIN fetches
    /\ call \in fetches[i].pending
    /\ group' = updateSwitchGroups(group, config, latest.clients,
                                   failedStatus(fetches[i].currentStatus))
    /\ fetches' = RemoveAt(fetches, i)
    /\ UNCHANGED <<config, latest, server, probe>>
    /\ UNCHANGED handlerVars

----------------------------------------------------------------------------
(* adguardhome.ts: the mutation requests *)

\* merge(list1, list2): list1, then the elements of list2 it lacks
RECURSIVE mergeLoop(_, _, _)
mergeLoop(newList, list2, i) ==
    IF i > Len(list2) THEN newList
    ELSE mergeLoop(IF Includes(newList, list2[i]) THEN newList ELSE Append(newList, list2[i]),
                   list2, i + 1)

\* the selected list in the place of the merged one
merge_Replace(list1, list2) == list2

merge(list1, list2) == mergeLoop(list1, list2, 1)

\* remove(oldList, subList)
remove(oldList, subList) == SelectSeq(oldList, LAMBDA x : ~Includes(subList, x))

\* a setBlockingConfig that switches the flags and leaves the lists of services alone
setBlockingConfig_FlagsOnly(clientConfig, blocking) ==
    [clientConfig EXCEPT !.use_global_settings = blocking,
                         !.filtering_enabled = FALSE,
                         !.parental_enabled = FALSE,
                         !.safebrowsing_enabled = FALSE,
                         !.safesearch_enabled = FALSE,
                         !.safe_search = IF @ = "absent" THEN "absent" ELSE "off"]

\* setBlockingConfig(clientConfig, blocking)
setBlockingConfig(clientConfig, blocking) ==
    IF blocking
    THEN IF ~isBlockingEnabled(clientConfig, FALSE)
         THEN [clientConfig EXCEPT !.use_global_settings = TRUE,
                                   !.use_global_blocked_services = TRUE]
         ELSE [clientConfig EXCEPT
                 !.use_global_settings =
                     clientConfig.use_global_settings \/ ~isBlockingEnabled(clientConfig, TRUE),
                 !.use_global_blocked_services = Len(clientConfig.blocked_services) > 0]
    ELSE [clientConfig EXCEPT !.use_global_settings = FALSE,
                              !.filtering_enabled = FALSE,
                              !.parental_enabled = FALSE,
                              !.safebrowsing_enabled = FALSE,
                              !.safesearch_enabled = FALSE,
                              !.safe_search = IF @ = "absent" THEN "absent" ELSE "off",
                              !.use_global_blocked_services = FALSE,
                              !.blocked_services = <<>>]

NoClient == ClientConfig(<<>>, <<>>, {}, "absent", <<>>)

\* the body of a request, by the api it goes to
Payload(api, enabled, ids, name, data) ==
    [api |-> api, protection_enabled |-> enabled, ids |-> ids, name |-> name, data |-> data]

NoPayload == Payload("none", FALSE, <<>>, <<>>, NoClient)

ClientsUpdate(name, data) == Payload("clients/update", FALSE, <<>>, name, data)

\* one request of a dispatch: the cached record it was built from, where it stands
\* ("read": the saved configuration is being read, "save": it is being written,
\* "post": the request is on the wire, then "fulfilled" or "rejected"), and its body
Request(stage, client, payload) == [stage |-> stage, client |-> client, payload |-> payload]

\* every cached record, resolved or not
foundClients_All(cached, clientList) == cached

\* clientList.map((cname) => latest.clients.find(...)).filter((cc) => !!cc)
foundClients(cached, clientList) ==
    LET hits == SelectSeq([i \in 1..Len(clientList) |-> findClient(cached, clientList[i])],
                          LAMBDA k : k # 0)
    IN [j \in 1..Len(hits) |-> cached[hits[j]]]

\* postGlobal(enabled)
postGlobal(enabled) ==
    <<Request("post", NoClient, Payload("dns_config", enabled, <<>>, <<>>, NoClient))>>

\* postGlobalServices(enabled, services)
postGlobalServices(cache, enabled, services) ==
    LET newServiceList == IF enabled THEN merge(cache.blocked_services, services)
                          ELSE remove(cache.blocked_services, services)
    IN <<Request("post", NoClient,
                 Payload("blocked_services/update", FALSE, newServiceList, <<>>, NoClient))>>

\* postClientServices(enabled, clients, services), up to the requests being sent
postClientServices(cache, enabled, clients, services) ==
    LET found == foundClients(cache.clients, expandTags(cache.clients, clients))
    IN [j \in 1..Len(found) |->
          Request("post", found[j],
                  ClientsUpdate(found[j].name,
                      [found[j] EXCEPT !.blocked_services =
                          IF enabled THEN merge(found[j].blocked_services, services)
                          ELSE remove(found[j].blocked_services, services)]))]

\* postClients(enabled, clients, read, write), up to the first await of every client
postClients(cache, enabled, clients) ==
    LET found == foundClients(cache.clients, expandTags(cache.clients, clients))
    IN [j \in 1..Len(found) |->
          IF enabled THEN Request("read", found[j], NoPayload)
          ELSE IF isBlockingEnabled(found[j], FALSE) THEN Request("save", found[j], NoPayload)
          ELSE Request("post", found[j],
                       ClientsUpdate(found[j].name, setBlockingConfig(found[j], FALSE)))]

\* the requests setAdGuardState(agState) starts, by the shape of the group
dispatch(cfg, cache, agState) ==
    IF isGlobal(cfg)
    THEN IF isSelectServices(cfg) THEN postGlobalServices(cache, agState, cfg.services)
         ELSE postGlobal(agState)
    ELSE IF isSelectServices(cfg) THEN postClientServices(cache, agState, cfg.clients, cfg.services)
         ELSE postClients(cache, agState, cfg.clients)

\* the server has a client of that name
hasClient(srv, name) == \E i \in 1..Len(srv.clients) : srv.clients[i].name = name

\* the server after a request it accepted
applyPost(srv, payload) ==
    IF payload.api = "dns_config"
    THEN [srv EXCEPT !.protection_enabled = payload.protection_enabled]
    ELSE IF payload.api = "blocked_services/update"
    THEN [srv EXCEPT !.ids = payload.ids]
    ELSE [srv EXCEPT !.clients =
            [i \in 1..Len(srv.clients) |->
                IF srv.clients[i].name = payload.name THEN payload.data ELSE srv.clients[i]]]

\* success reported when any request was fulfilled
allFulfilled_Any(reqs) == reqs = <<>> \/ \E k \in 1..Len(reqs) : reqs[k].stage = "fulfilled"

\* doPostWrapper: no request rejected
allFulfilled(reqs) == \A k \in 1..Len(reqs) : reqs[k].stage = "fulfilled"

\* Promise.all in the place of Promise.allSettled: over as soon as a request is rejected
allSettled_FailFast(reqs) ==
    \/ \A k \in 1..Len(reqs) : reqs[k].stage \in {"fulfilled", "rejected"}
    \/ \E k \in 1..Len(reqs) : reqs[k].stage = "rejected"

allSettled(reqs) == \A k \in 1..Len(reqs) : reqs[k].stage \in {"fulfilled", "rejected"}

----------------------------------------------------------------------------
(* platformAccessory.ts: timers, toggles and setAdGuardState *)

MsPerMinute == 60 * 1000

ClockStep == MsPerMinute

\* the clock when the plugin has finished launching
StartNow == 2 * MsPerMinute

\* contents of a timer file that are no number: no file, and text parseInt gives NaN for
AbsentFile == -1
GarbageFile == -2

\* a handler invocation: kind "toggle" (handleHomeKitSetEvent), "expire" (the timer
\* callback) or "restore" (restoreUnfinishedTimers); pc says what it waits for:
\* "timerRead", "timerWrite" or "post" (the requests of setAdGuardState)
NoProc ==
    [kind |-> "none", g |-> 0, pc |-> "none", agState |-> FALSE, setAfter |-> FALSE,
     minutes |-> 0, writing |-> 0, target |-> BLOCKING, reqs |-> <<>>, toggle |-> 0,
     arm |-> 0, before |-> <<>>, overlapped |-> FALSE]

\* an entry of the history of toggles: the group, the value and the timeout of the switch
\* toggled, the currentState and the _currentTimer the toggle met, and how it ended
\* ("rejected", or "pending" and then "succeeded" or "failed" with the result of
\* setAdGuardState)
Toggle(g, value, timeout, from, timer, outcome) ==
    [g |-> g, value |-> value, timeout |-> timeout, from |-> from, timer |-> timer,
     outcome |-> outcome]

RestoreProc(g) == [NoProc EXCEPT !.kind = "restore", !.g = g, !.pc = "timerRead"]

Slots == 1..MaxProcs

FreeSlots == {sl \in Slots : procs[sl].kind = "none"}

\* a timer handle no variable holds
FreshHandle ==
    LET used == {t.id : t \in timers} \cup {group[g]._currentTimer : g \in DOMAIN group}
    IN CHOOSE h \in 1..(Cardinality(used) + 1) : h \notin used

\* the guard letting every toggle through but one on an unavailable group
toggleAllowed_UnlessUnavailable(gs, cfg) == gs._currentState # UNAVAILABLE \/ cfg.forceState

\* the guard without the forceState override
toggleAllowed_NoForce(gs, cfg) == isConsistentState(gs._currentState)

\* the toggle guard of handleHomeKitSetEvent
toggleAllowed(gs, cfg) == isConsistentState(gs._currentState) \/ cfg.forceState

\* the switch's timeout passed whatever the value toggled to
toggleMinutes_Always(cfg, newAGHState, timeout) == timeout

\* the minutes handleHomeKitSetEvent passes to startNewTimer
toggleMinutes(cfg, newAGHState, timeout) == IF newAGHState # cfg.defaultState THEN timeout ELSE 0

\* the record named name in a list of client records, as a list of at most one record
recordNamed(clients, name) == SelectSeq(clients, LAMBDA cc : cc.name = name)

\* lastDisable when a mutation of the clients of a group ends: a disable that succeeded,
\* with no other mutation of the group under way meanwhile, notes what the server held
\* for each of its clients that had blocking on; any other mutation of a client ends
\* what was noted for it
disableNoted(noted, cfg, p, successful) ==
    IF isGlobal(cfg) \/ isSelectServices(cfg) THEN noted
    ELSE [name \in DOMAIN noted |->
            IF \E k \in DOMAIN p.reqs : p.reqs[k].client.name = name
            THEN IF successful /\ ~p.agState /\ ~p.overlapped
                 THEN SelectSeq(recordNamed(p.before, name),
                                LAMBDA cc : isBlockingEnabled(cc, FALSE))
                 ELSE <<>>
            ELSE noted[name]]

\* the end of setAdGuardState and what its caller does with the result: a toggle defers
\* updateHomeKit(currentState), the timer callback and the restore call
\* updateHomeKit(agState, toAGHState(defaultState)) at once
FinishSet(sl, p, gs, successful) ==
    LET g1 == setCurrentState(gs, IF successful THEN p.target ELSE UNAVAILABLE)
    IN /\ procs' = [procs EXCEPT ![sl] = NoProc]
       /\ lastDisable' = disableNoted(lastDisable, config[p.g], p, successful)
       /\ IF p.kind = "toggle"
          THEN /\ group' = [group EXCEPT ![p.g] = g1]
               /\ deferred' = [deferred EXCEPT ![p.g] = @ + 1]
               /\ toggles' = [toggles EXCEPT ![p.toggle].outcome =
                                 IF successful THEN "succeeded" ELSE "failed"]
          ELSE /\ group' = [group EXCEPT ![p.g] =
                       updateHomeKit(g1, g1._currentState, toAGHState(config[p.g].defaultState))]
               /\ UNCHANGED <<deferred, toggles>>

\* setAdGuardState that reports a dispatch without requests as failed
BeginSet_EmptyFails(sl, p, gs) ==
    LET target == toAGHState(p.agState)
        g1 == setTargetState(gs, target)
        reqs == dispatch(config[p.g], latest, p.agState)
        others == {s \in Slots \ {sl} : procs[s].pc = "post" /\ procs[s].g = p.g}
        p1 == [p EXCEPT !.pc = "post", !.target = target, !.reqs = reqs,
                        !.before = server.clients, !.overlapped = others # {}]
    IN IF reqs = <<>>
       THEN FinishSet(sl, p1, g1, FALSE)
       ELSE /\ group' = [group EXCEPT ![p.g] = g1]
            /\ procs' = [s \in Slots |->
                            IF s = sl THEN p1
                            ELSE IF s \in others THEN [procs[s] EXCEPT !.overlapped = TRUE]
                            ELSE procs[s]]
            /\ UNCHANGED <<deferred, toggles, lastDisable>>

\* setAdGuardState(agState) up to its await; with no request to wait for it ends at once.
\* (before and overlapped are history: what the server held for the clients then, and
\* whether another setAdGuardState of the group was or came under way meanwhile.)
BeginSet(sl, p, gs) ==
    LET target == toAGHState(p.agState)
        g1 == setTargetState(gs, target)
        reqs == dispatch(config[p.g], latest, p.agState)
        others == {s \in Slots \ {sl} : procs[s].pc = "post" /\ procs[s].g = p.g}
        p1 == [p EXCEPT !.pc = "post", !.target = target, !.reqs = reqs,
                        !.before = server.clients, !.overlapped = others # {}]
    IN IF reqs = <<>>
       THEN FinishSet(sl, p1, g1, TRUE)
       ELSE /\ group' = [group EXCEPT ![p.g] = g1]
            /\ procs' = [s \in Slots |->
                            IF s = sl THEN p1
                            ELSE IF s \in others THEN [procs[s] EXCEPT !.overlapped = TRUE]
                            ELSE procs[s]]
            /\ UNCHANGED <<deferred, toggles, lastDisable>>

\* startNewTimer(minutes) up to the write of the timer file
StartNewTimer(sl, p, minutes) ==
    LET timeout == IF minutes < 0 THEN 0 ELSE minutes
        old == group[p.g]._currentTimer
    IN /\ timers' = IF old # 0 THEN {t \in timers : t.id # old} ELSE timers
       /\ arms' = [arms EXCEPT ![p.g] = @ + 1]
       /\ procs' = [procs EXCEPT ![sl] =
                      [p EXCEPT !.pc = "timerWrite",
                                !.arm = arms[p.g] + 1,
                                !.minutes = timeout,
                                !.writing = IF timeout = 0 THEN 0 ELSE now + timeout * MsPerMinute]]

\* handleHomeKitSetEvent(service, value, timeout) up to its first await
HandleHomeKitSetEvent(g, value, timeout) ==
    /\ Len(toggles) < MaxToggles
    /\ Includes(config[g].timeouts, timeout)
    /\ toggles' = Append(toggles, Toggle(g, value, timeout, group[g]._currentState,
                                         group[g]._currentTimer,
                                         IF toggleAllowed(group[g], config[g])
                                         THEN "pending" ELSE "rejected"))
    /\ IF ~toggleAllowed(group[g], config[g])
       THEN /\ deferred' = [deferred EXCEPT ![g] = @ + 1]
            /\ UNCHANGED <<timers, procs, arms>>
       ELSE /\ FreeSlots # {}
            /\ LET sl == CHOOSE x \in FreeSlots : \A y \in FreeSlots : x <= y
               IN StartNewTimer(sl, [NoProc EXCEPT !.kind = "toggle", !.g = g,
                                                   !.agState = value, !.setAfter = TRUE,
                                                   !.toggle = Len(toggles) + 1],
                                toggleMinutes(config[g], value, timeout))
            /\ UNCHANGED deferred
    /\ UNCHANGED <<config, group, latest, server, fetches, timerFile, clientStore, unlinks,
                   lastDisable, now, probe>>

\* a write of the timer file ends (failures are logged and dropped); startNewTimer then
\* sets the timer, and the caller goes on
TimerWriteDone(sl, ok) ==
    /\ procs[sl].pc = "timerWrite"
    /\ LET p == procs[sl]
           h == FreshHandle
           gs == IF p.minutes > 0 THEN [group[p.g] EXCEPT !._currentTimer = h] ELSE group[p.g]
       IN /\ timerFile' = IF ok THEN [timerFile EXCEPT ![p.g] = p.writing] ELSE timerFile
          /\ timers' = IF p.minutes > 0
                       THEN timers \cup {[id |-> h, g |-> p.g, arm |-> p.arm,
                                         due |-> now + p.minutes * MsPerMinute]}
                       ELSE timers
          /\ IF p.setAfter
             THEN BeginSet(sl, p, gs)
             ELSE /\ group' = [group EXCEPT ![p.g] = gs]
                  /\ procs' = [procs EXCEPT ![sl] = NoProc]
                  /\ UNCHANGED <<deferred, toggles, lastDisable>>
    /\ UNCHANGED <<config, latest, server, fetches, clientStore, unlinks, arms, now, probe>>

\* the setTimeout callback of startNewTimer, up to the write of the timer file
TimerFire(t) ==
    /\ t \in timers
    /\ now >= t.due
    /\ FreeSlots # {}
    /\ timers' = timers \ {t}
    /\ LET sl == CHOOSE x \in FreeSlots : \A y \in FreeSlots : x <= y
       IN procs' = [procs EXCEPT ![sl] =
                      [NoProc EXCEPT !.kind = "expire", !.g = t.g, !.pc = "timerWrite",
                                     !.arm = t.arm,
                                     !.agState = config[t.g].defaultState, !.setAfter = TRUE]]
    /\ UNCHANGED <<config, group, latest, server, fetches, timerFile, clientStore, unlinks,
                   deferred, toggles, arms, lastDisable, now, probe>>

\* the test that never finds the deadline passed
isExpired_Never(timeout, nowMs) == FALSE

\* restoreUnfinishedTimers: now >= timeout, the deadline has passed
isExpired(timeout, nowMs) == nowMs >= timeout

\* the minutes left, rounded down
minutesLeft_Floor(timeout, nowMs) == (timeout - nowMs) \div MsPerMinute

\* restoreUnfinishedTimers: Math.ceil((timeout - now) / (60 * 1000))
minutesLeft(timeout, nowMs) == ((timeout - nowMs) + (MsPerMinute - 1)) \div MsPerMinute

\* restoreUnfinishedTimers: readTimerStorage ends and the branches on its result
TimerReadDone(sl, ok) ==
    /\ procs[sl].pc = "timerRead"
    /\ LET p == procs[sl]
           file == timerFile[p.g]
           undefined == ~ok \/ file = AbsentFile
           isNaN == ok /\ file = GarbageFile
           timeout == file
       IN IF undefined \/ isNaN \/ timeout = 0
          THEN /\ procs' = [procs EXCEPT ![sl] = [p EXCEPT !.pc = "timerWrite", !.writing = 0]]
               /\ UNCHANGED <<timers, arms>>
          ELSE IF isExpired(timeout, now)
          THEN /\ procs' = [procs EXCEPT ![sl] =
                              [p EXCEPT !.pc = "timerWrite", !.writing = 0, !.setAfter = TRUE,
                                        !.agState = config[p.g].defaultState]]
               /\ UNCHANGED <<timers, arms>>
          ELSE StartNewTimer(sl, p, minutesLeft(timeout, now))
    /\ UNCHANGED <<config, group, latest, server, fetches, timerFile, clientStore, unlinks,
                   deferred, toggles, lastDisable, now, probe>>

\* a readClientState that rejects when the file cannot be read: nothing is sent
ClientReadDone_Rejects(sl, k, ok) ==
    /\ ok
    /\ procs[sl].pc = "post"
    /\ k \in DOMAIN procs[sl].reqs
    /\ procs[sl].reqs[k].stage = "read"
    /\ LET cc == procs[sl].reqs[k].client
           saved == clientStore[cc.name]
           newClientConfig == IF saved # <<>> THEN saved[1] ELSE setBlockingConfig(cc, TRUE)
       IN /\ unlinks' = IF saved # <<>> THEN unlinks \cup {cc.name} ELSE unlinks
          /\ procs' = [procs EXCEPT ![sl].reqs[k] =
                          Request("post", cc, ClientsUpdate(cc.name, newClientConfig))]
    /\ UNCHANGED <<config, group, latest, server, fetches, timerFile, clientStore, timers,
                   deferred, toggles, arms, lastDisable, now, probe>>

\* readClientState(name) ends: the saved configuration, if there is one, is replayed and
\* its file unlinked (not awaited); otherwise an enabled configuration is made up
ClientReadDone(sl, k, ok) ==
    /\ procs[sl].pc = "post"
    /\ k \in DOMAIN procs[sl].reqs
    /\ procs[sl].reqs[k].stage = "read"
    /\ LET cc == procs[sl].reqs[k].client
           saved == IF ok THEN clientStore[cc.name] ELSE <<>>
           newClientConfig == IF saved # <<>> THEN saved[1] ELSE setBlockingConfig(cc, TRUE)
       IN /\ unlinks' = IF saved # <<>> THEN unlinks \cup {cc.name} ELSE unlinks
          /\ procs' = [procs EXCEPT ![sl].reqs[k] =
                          Request("post", cc, ClientsUpdate(cc.name, newClientConfig))]
    /\ UNCHANGED <<config, group, latest, server, fetches, timerFile, clientStore, timers,
                   deferred, toggles, arms, lastDisable, now, probe>>

\* writeClientState(name, clientConfig) ends (failures are logged and dropped)
ClientSaveDone(sl, k, ok) ==
    /\ procs[sl].pc = "post"
    /\ k \in DOMAIN procs[sl].reqs
    /\ procs[sl].reqs[k].stage = "save"
    /\ LET cc == procs[sl].reqs[k].client
       IN /\ clientStore' = IF ok THEN [clientStore EXCEPT ![cc.name] = <<cc>>] ELSE clientStore
          /\ procs' = [procs EXCEPT ![sl].reqs[k] =
                          Request("post", cc, ClientsUpdate(cc.name, setBlockingConfig(cc, FALSE)))]
    /\ UNCHANGED <<config, group, latest, server, fetches, timerFile, unlinks, timers,
                   deferred, toggles, arms, lastDisable, now, probe>>

\* fs.unlink of a replayed client file ends
UnlinkDone(name) ==
    /\ name \in unlinks
    /\ unlinks' = unlinks \ {name}
    /\ clientStore' = [clientStore EXCEPT ![name] = <<>>]
    /\ UNCHANGED <<config, group, latest, server, fetches, timerFile, timers, procs,
                   deferred, toggles, arms, lastDisable, now, probe>>

\* a request is answered (ok) or fails; with the last one settled setAdGuardState ends
PostDone(sl, k, ok) ==
    /\ procs[sl].pc = "post"
    /\ k \in DOMAIN procs[sl].reqs
    /\ procs[sl].reqs[k].stage = "post"
    /\ LET p == procs[sl]
           payload == p.reqs[k].payload
           reqs == [p.reqs EXCEPT ![k].stage = IF ok THEN "fulfilled" ELSE "rejected"]
       IN /\ ok /\ payload.api = "clients/update" => hasClient(server, payload.name)
          /\ server' = IF ok THEN applyPost(server, payload) ELSE server
          /\ IF allSettled(reqs)
             THEN FinishSet(sl, [p EXCEPT !.reqs = reqs], group[p.g], allFulfilled(reqs))
             ELSE /\ procs' = [procs EXCEPT ![sl].reqs = reqs]
                  /\ UNCHANGED <<group, deferred, toggles, lastDisable>>
    /\ UNCHANGED <<config, latest, fetches, timerFile, clientStore, unlinks, timers, arms,
                   now, probe>>

\* the deferred updateHomeKit(this.currentState) of handleHomeKitSetEvent
DeferredRender(g) ==
    /\ deferred[g] > 0
    /\ deferred' = [deferred EXCEPT ![g] = @ - 1]
    /\ group' = [group EXCEPT ![g] = updateHomeKit(@, @._currentState, @._targetState)]
    /\ UNCHANGED <<config, latest, server, fetches, timerFile, clientStore, unlinks, timers,
                   procs, toggles, arms, lastDisable, now, probe>>

\* time passes
AdvanceClock ==
    /\ now < StartNow + MaxClockSteps * ClockStep
    /\ now' = now + ClockStep
    /\ UNCHANGED <<config, group, latest, server, fetches, timerFile, clientStore, unlinks,
                   timers, procs, deferred, toggles, arms, lastDisable, probe>>

\* no handler is running: the values the timer and handler variables take then
Quiet ==
    /\ timerFile = [g \in DOMAIN config |-> 0]
    /\ clientStore = [n \in ClientNames |-> <<>>]
    /\ unlinks = {}
    /\ timers = {}
    /\ procs = [sl \in Slots |-> NoProc]
    /\ deferred = [g \in DOMAIN config |-> 0]
    /\ toggles = <<>>
    /\ arms = [g \in DOMAIN config |-> 0]
    /\ lastDisable = [n \in ClientNames |-> <<>>]
    /\ now = StartNow

----------------------------------------------------------------------------
(* Inputs of the pure functions *)

\* configurations of a group: the selector shapes
SelectorLists == {<<>>, <<Kid>>, <<Kid, Tv1>>, <<AtFamily>>, <<TvStar>>, <<AtFamily, TvStar>>}

SelectedServices == {<<>>, <<"ads">>, <<"ads", "tracking">>}

GroupConfig(clients, services, defaultState, forceState, timeouts) ==
    [clients |-> clients, services |-> services, defaultState |-> defaultState,
     forceState |-> forceState, timeouts |-> timeouts]

PureConfigs ==
    {GroupConfig(c, s, d, FALSE, <<0>>) : c \in SelectorLists, s \in SelectedServices, d \in BOOLEAN}

\* the tags the server reports for a client
TagsOf(name) == IF name = Kid THEN <<Family>> ELSE <<>>

\* client records: every single switch of the record on its own, all of them, and the
\* blocked-service lists
ClientRecords(name) ==
    {ClientConfig(name, TagsOf(name), on, "absent", <<>>) :
        on \in {{}} \cup {{f} : f \in FlagNames} \cup {FlagNames}}
    \cup {ClientConfig(name, TagsOf(name), {}, ss, <<>>) : ss \in {"on", "off"}}
    \cup {ClientConfig(name, TagsOf(name), {}, "absent", bs) : bs \in ServiceLists}

\* client lists of a snapshot: at most one record per name
ClientLists ==
    {<<>>}
    \cup {<<r>> : r \in ClientRecords(Kid) \cup ClientRecords(Tv1)}
    \cup {<<r, q>> : r \in ClientRecords(Kid), q \in ClientRecords(Tv1)}
    \cup {<<q, r>> : r \in ClientRecords(Kid), q \in ClientRecords(Tv1)}

\* cached client lists: only names and tags matter to the expansion
PlainClient(name, tags) == ClientConfig(name, tags, {}, "absent", <<>>)

CachedLists ==
    {<<>>,
     <<PlainClient(Kid, <<Family>>)>>,
     <<PlainClient(Kid, <<Family>>), PlainClient(Tv1, <<>>)>>,
     <<PlainClient(Tv1, <<Family>>), PlainClient(Kid, <<Family>>)>>}

\* snapshots: the global fields varied, and the client list varied
Snapshots ==
    {AdGuardStatus(a, IF a THEN "none" ELSE "error", en, bs, <<>>) :
        a \in BOOLEAN, en \in {"true", "false", "undefined"}, bs \in ServiceLists}
    \cup {AdGuardStatus(a, IF a THEN "none" ELSE "error", "undefined", <<>>, cl) :
        a \in BOOLEAN, cl \in ClientLists}

NoProbe == [fn |-> "none", done |-> TRUE, status |-> NewAdGuardStatus,
            superset |-> <<>>, subset |-> <<>>, result |-> 0]

UpdateProbe(status) == [NoProbe EXCEPT !.fn = "update", !.done = FALSE, !.status = status]

ContainsProbe(superset, subset) ==
    [NoProbe EXCEPT !.fn = "containsAllOrNone", !.done = FALSE,
                    !.superset = superset, !.subset = subset]

----------------------------------------------------------------------------
(* The pure functions applied to drawn inputs *)

\* a group built while the server did not answer, then any cache contents
InitPure ==
    /\ \E cfg \in PureConfigs : config = <<cfg>>
    /\ \E cl \in CachedLists : latest = [NewAdGuardStatus EXCEPT !.clients = cl]
    /\ group = [g \in {1} |-> newGroup(config[g], latest.clients, NewAdGuardStatus)]
    /\ server = NoServer
    /\ fetches = <<>>
    /\ Quiet
    /\ \/ \E s \in Snapshots : probe = UpdateProbe(s)
       \/ \E sup \in ServiceLists, sub \in ServiceLists :
            /\ probe = ContainsProbe(sup, sub)
            /\ config = <<GroupConfig(<<>>, <<>>, TRUE, FALSE, <<0>>)>>
            /\ latest = NewAdGuardStatus

\* group.update(status) with the drawn snapshot
UpdateCall(g) ==
    /\ probe.fn = "update"
    /\ ~probe.done
    /\ group' = [group EXCEPT ![g] = update(group[g], config[g], latest.clients, probe.status)]
    /\ probe' = [probe EXCEPT !.done = TRUE]
    /\ UNCHANGED <<config, latest, server, fetches>>
    /\ UNCHANGED handlerVars

\* containsAllOrNone(superset, subset) with the drawn lists
ContainsCall ==
    /\ probe.fn = "containsAllOrNone"
    /\ ~probe.done
    /\ probe' = [probe EXCEPT !.done = TRUE,
                              !.result = containsAllOrNone(probe.superset, probe.subset)]
    /\ UNCHANGED <<config, group, latest, server, fetches>>
    /\ UNCHANGED handlerVars

NextPure ==
    \/ \E g \in DOMAIN config : UpdateCall(g)
    \/ ContainsCall

SpecPure == InitPure /\ [][NextPure]_vars

----------------------------------------------------------------------------
(* The polling loop over a client-scoped and a global group, the server edited meanwhile *)

FilteringOn(name, tags) == ClientConfig(name, tags, {"filtering_enabled"}, "absent", <<>>)

\* client lists an administrator may set up on the server
AdminClientLists ==
    {<<>>,
     <<PlainClient(Kid, <<Family>>)>>,
     <<FilteringOn(Kid, <<Family>>), PlainClient(Tv1, <<>>)>>,
     <<FilteringOn(Kid, <<Family>>), PlainClient(Tv1, <<Family>>)>>}

PollConfigs ==
    {<<GroupConfig(c, <<>>, TRUE, FALSE, <<0>>), GroupConfig(<<>>, <<>>, TRUE, FALSE, <<0>>)>> :
        c \in {<<AtFamily>>, <<Kid, Tv1>>}}

InitPoll ==
    /\ config \in PollConfigs
    /\ \E cl \in AdminClientLists, en \in BOOLEAN : server = ServerState(en, <<"ads">>, cl)
    /\ \E answered \in SUBSET Calls :
        /\ latest = initialLatest(server, answered)
        /\ group = discoverDevices(config, latest.clients, initialStatus(server, answered))
    /\ fetches = <<>>
    /\ Quiet
    /\ probe = NoProbe

\* the server's configuration is changed in AdGuard Home itself
AdminEdit ==
    /\ \E cl \in AdminClientLists, en \in BOOLEAN :
        server' = [server EXCEPT !.clients = cl, !.protection_enabled = en]
    /\ UNCHANGED <<config, group, latest, fetches, probe>>
    /\ UNCHANGED handlerVars

NextPoll ==
    \/ PollTick
    \/ \E i \in DOMAIN fetches, call \in Calls : FetchAnswer(i, call)
    \/ \E i \in DOMAIN fetches, call \in Calls : FetchFail(i, call)
    \/ AdminEdit

SpecPoll == InitPoll /\ [][NextPoll]_vars

----------------------------------------------------------------------------
(* One switch group from launch on: restore, toggles, timers and the polling loop *)

BlocksAds(name, tags) == ClientConfig(name, tags, {}, "absent", <<"ads">>)

\* what the server holds when the plugin starts: nothing blocked and no client, or one
\* of two services blocked globally and for the one client there is
StartServers ==
    {ServerState(TRUE, <<>>, <<>>),
     ServerState(FALSE, <<"ads">>, <<BlocksAds(Kid, <<Family>>)>>)}

\* the four shapes of a group: global or client-scoped, with or without services
GroupShapes ==
    {<< <<>>, <<>> >>, << <<>>, <<"ads", "tracking">> >>,
     << <<Kid, Tv1>>, <<>> >>, << <<AtFamily>>, <<"ads", "tracking">> >>}

ToggleConfigs ==
    {<<GroupConfig(sh[1], sh[2], d, f, <<0, 1>>)>> : sh \in GroupShapes, d \in BOOLEAN, f \in BOOLEAN}

\* what the timer file holds at launch: nothing, text, 0, a deadline passed, one to come
StartTimerFiles == {AbsentFile, GarbageFile, 0, StartNow - MsPerMinute, StartNow + MsPerMinute}

\* the global group with services, default state on
TimerConfigs == {<<GroupConfig(<<>>, <<"ads", "tracking">>, TRUE, f, <<0, 1>>)>> : f \in BOOLEAN}

\* the launches looked at: every configuration on a first launch (no timer file) with the
\* server answering, and for the global group with services every content of the timer
\* file, and the server not answering
Launch(cfg, srv, answered, file) ==
    [config |-> cfg, server |-> srv, answered |-> answered, file |-> file]

Launches ==
    {Launch(cfg, srv, Calls, AbsentFile) : cfg \in ToggleConfigs, srv \in StartServers}
    \cup
    {Launch(cfg, srv, Calls, file) :
        cfg \in TimerConfigs, srv \in StartServers, file \in StartTimerFiles}
    \cup
    {Launch(cfg, srv, {}, AbsentFile) : cfg \in TimerConfigs, srv \in StartServers}

\* the state when the didFinishLaunching callback has run: the groups constructed from
\* the initial status, the polling interval set, the timer files being read
Init ==
    \E l \in Launches :
        /\ config = l.config
        /\ server = l.server
        /\ latest = initialLatest(server, l.answered)
        /\ group = discoverDevices(config, latest.clients, initialStatus(server, l.answered))
        /\ fetches = <<>>
        /\ timerFile = [g \in DOMAIN config |-> l.file]
        /\ clientStore = [n \in ClientNames |-> <<>>]
        /\ unlinks = {}
        /\ timers = {}
        /\ procs = [sl \in Slots |-> IF sl \in DOMAIN config THEN RestoreProc(sl) ELSE NoProc]
        /\ deferred = [g \in DOMAIN config |-> 0]
        /\ toggles = <<>>
        /\ arms = [g \in DOMAIN config |-> 0]
        /\ lastDisable = [n \in ClientNames |-> <<>>]
        /\ now = StartNow
        /\ probe = NoProbe

\* a tick of the polling loop when the interval (10 s unless configured) is longer than
\* the time a request is given (7.5 s unless configured): the poll before it has ended
PollTickInTurn ==
    /\ fetches = <<>>
    /\ PollTick

Next ==
    \/ \E g \in DOMAIN config, value \in BOOLEAN, timeout \in 0..1 :
          HandleHomeKitSetEvent(g, value, timeout)
    \/ \E sl \in Slots, ok \in BOOLEAN : TimerReadDone(sl, ok)
    \/ \E sl \in Slots, ok \in BOOLEAN : TimerWriteDone(sl, ok)
    \/ \E sl \in Slots, k \in 1..2, ok \in BOOLEAN : ClientReadDone(sl, k, ok)
    \/ \E sl \in Slots, k \in 1..2, ok \in BOOLEAN : ClientSaveDone(sl, k, ok)
    \/ \E sl \in Slots, k \in 1..2, ok \in BOOLEAN : PostDone(sl, k, ok)
    \/ \E name \in ClientNames : UnlinkDone(name)
    \/ \E t \in timers : TimerFire(t)
    \/ \E g \in DOMAIN config : DeferredRender(g)
    \/ AdvanceClock
    \/ PollTickInTurn
    \/ \E i \in DOMAIN fetches, call \in Calls : FetchAnswer(i, call)
    \/ \E i \in DOMAIN fetches, call \in Calls : FetchFail(i, call)

Spec == Init /\ [][Next]_vars

----------------------------------------------------------------------------
(* A launch over a timer file left by the run before: restoreUnfinishedTimers alone *)

\* the state when the didFinishLaunching callback has run on launch l, with the client
\* files the run before has left
Launched(l, store) ==
    /\ config = l.config
    /\ server = l.server
    /\ latest = initialLatest(server, l.answered)
    /\ group = discoverDevices(config, latest.clients, initialStatus(server, l.answered))
    /\ fetches = <<>>
    /\ timerFile = [g \in DOMAIN config |-> l.file]
    /\ clientStore = store
    /\ unlinks = {}
    /\ timers = {}
    /\ procs = [sl \in Slots |-> IF sl \in DOMAIN config THEN RestoreProc(sl) ELSE NoProc]
    /\ deferred = [g \in DOMAIN config |-> 0]
    /\ toggles = <<>>
    /\ arms = [g \in DOMAIN config |-> 0]
    /\ lastDisable = [n \in ClientNames |-> <<>>]
    /\ now = StartNow
    /\ probe = NoProbe

\* deadlines the run before may have left: passed by a minute, by a millisecond, this
\* very millisecond; a millisecond ahead, a minute less or more a millisecond, a minute
\* and a half, five minutes less a millisecond (the timer of five minutes set a
\* millisecond before the restart), five minutes
RestoreFiles ==
    {AbsentFile, GarbageFile, 0}
    \cup {StartNow - MsPerMinute, StartNow - 1, StartNow}
    \cup {StartNow + 1, StartNow + MsPerMinute - 1, StartNow + MsPerMinute,
          StartNow + MsPerMinute + 1, StartNow + MsPerMinute + (MsPerMinute \div 2),
          StartNow + 5 * MsPerMinute - 1, StartNow + 5 * MsPerMinute}

\* the global groups, with and without services
RestoreConfigs ==
    {<<GroupConfig(<<>>, s, d, FALSE, <<0, 1>>)>> : s \in {<<>>, <<"ads", "tracking">>}, d \in BOOLEAN}

InitRestore ==
    \E cfg \in RestoreConfigs, srv \in StartServers, file \in RestoreFiles :
        Launched(Launch(cfg, srv, Calls, file), [n \in ClientNames |-> <<>>])

NextRestore ==
    \/ \E sl \in Slots, ok \in BOOLEAN : TimerReadDone(sl, ok)
    \/ \E sl \in Slots, ok \in BOOLEAN : TimerWriteDone(sl, ok)
    \/ \E sl \in Slots, ok \in BOOLEAN : PostDone(sl, 1, ok)
    \/ \E t \in timers : TimerFire(t)
    \/ AdvanceClock

SpecRestore == InitRestore /\ [][NextRestore]_vars

----------------------------------------------------------------------------
(* A client-scoped group over two clients: the requests of a mutation, the saved
   client files *)

\* the two clients as an administrator has set them up
ClientsSetUp == <<BlocksAds(Kid, <<Family>>), FilteringOn(Tv1, <<>>)>>

\* the one client of a smaller household, and as a disable leaves it
KidSetUp == BlocksAds(Kid, <<Family>>)

KidDisabled == setBlockingConfig(KidSetUp, FALSE)

\* the group over the two clients, with and without services
ClientConfigs ==
    {<<GroupConfig(<<Kid, Tv1>>, s, d, TRUE, <<0, 1>>)>> : s \in {<<>>, <<"ads", "tracking">>}, d \in BOOLEAN}

\* a first launch with both clients at the server; a launch after a run in which the
\* group without services, default state on, was switched off for a minute with one
\* client at the server, and the minute has passed: the client is disabled at the server,
\* its file saved, the deadline in the timer file; and, for the dispatch of one request,
\* a first launch of the global group
InitClients ==
    \/ \E cfg \in ClientConfigs :
          Launched(Launch(cfg, ServerState(TRUE, <<>>, ClientsSetUp), Calls, AbsentFile),
                   [n \in ClientNames |-> <<>>])
    \/ Launched(Launch(<<GroupConfig(<<Kid, Tv1>>, <<>>, TRUE, TRUE, <<0, 1>>)>>,
                       ServerState(TRUE, <<>>, <<KidDisabled>>), Calls, StartNow - MsPerMinute),
                [n \in ClientNames |-> IF n = Kid THEN <<KidSetUp>> ELSE <<>>])
    \/ Launched(Launch(<<GroupConfig(<<>>, <<>>, TRUE, TRUE, <<0, 1>>)>>,
                       ServerState(TRUE, <<>>, ClientsSetUp), Calls, AbsentFile),
                [n \in ClientNames |-> <<>>])

NextClients ==
    \/ \E g \in DOMAIN config, value \in BOOLEAN, timeout \in 0..1 :
          HandleHomeKitSetEvent(g, value, timeout)
    \/ \E sl \in Slots, ok \in BOOLEAN : TimerReadDone(sl, ok)
    \/ \E sl \in Slots, ok \in BOOLEAN : TimerWriteDone(sl, ok)
    \/ \E sl \in Slots, k \in 1..2, ok \in BOOLEAN : ClientReadDone(sl, k, ok)
    \/ \E sl \in Slots, k \in 1..2, ok \in BOOLEAN : ClientSaveDone(sl, k, ok)
    \/ \E sl \in Slots, k \in 1..2, ok \in BOOLEAN : PostDone(sl, k, ok)
    \/ \E name \in ClientNames : UnlinkDone(name)
    \/ \E t \in timers : TimerFire(t)
    \/ \E g \in DOMAIN config : DeferredRender(g)
    \/ AdvanceClock

SpecClients == InitClients /\ [][NextClients]_vars

----------------------------------------------------------------------------
(* The selector expansion and the requests of a dispatch, applied to drawn inputs *)

\* a name no client of the server has
Pc == <<"p", "c">>

\* a pattern for the names that end in d
StarD == <<"*", "d">>

MaxTokens == 3

\* selector lists: literal names (one of them unknown to the server), a tag, two patterns
TokenLists == SeqsUpTo({Kid, Tv1, Pc, AtFamily, TvStar, StarD}, MaxTokens)

ExpandProbe == [fn |-> "expandTags", done |-> FALSE, result |-> <<>>]

DispatchProbe(enabled) ==
    [fn |-> "setAdGuardState", done |-> FALSE, enabled |-> enabled, result |-> <<>>]

\* the cache after a fetch that answered: the global list or the client list varied
DispatchCaches ==
    {AdGuardStatus(TRUE, "none", "true", bs, <<>>) : bs \in ServiceLists}
    \cup {AdGuardStatus(TRUE, "none", "true", <<>>, cl) : cl \in ClientLists}

\* groups of every shape, the services selected varied
DispatchConfigs ==
    {GroupConfig(c, s, TRUE, FALSE, <<0>>) : c \in SelectorLists, s \in ServiceLists}

\* the records of kid: every combination of the flags, of safe_search and of the
\* blocked services
AllRecords ==
    {ClientConfig(Kid, TagsOf(Kid), on, ss, bs) :
        on \in SUBSET FlagNames, ss \in {"absent", "on", "off"}, bs \in ServiceLists}

BlockingProbe(blocking) ==
    [fn |-> "setBlockingConfig", done |-> FALSE, enabled |-> blocking, result |-> NoClient]

\* a group over the drawn selectors, and any cache contents
InitRequests ==
    /\ \/ /\ \E tokens \in TokenLists : config = <<GroupConfig(tokens, <<>>, TRUE, FALSE, <<0>>)>>
          /\ \E cl \in CachedLists : latest = [NewAdGuardStatus EXCEPT !.clients = cl]
          /\ probe = ExpandProbe
       \/ /\ \E cfg \in DispatchConfigs : config = <<cfg>>
          /\ latest \in DispatchCaches
          /\ IF isGlobal(config[1]) THEN latest.clients = <<>>
             ELSE latest.blocked_services = <<>>
          /\ \E enabled \in BOOLEAN : probe = DispatchProbe(enabled)
       \/ /\ config = <<GroupConfig(<<Kid>>, <<>>, TRUE, FALSE, <<0>>)>>
          /\ \E rec \in AllRecords : latest = AdGuardStatus(TRUE, "none", "true", <<>>, <<rec>>)
          /\ \E blocking \in BOOLEAN : probe = BlockingProbe(blocking)
    /\ group = [g \in {1} |-> newGroup(config[g], latest.clients, NewAdGuardStatus)]
    /\ server = NoServer
    /\ fetches = <<>>
    /\ Quiet

\* expandTags(this.clients) with the drawn selectors and cache
ExpandCall ==
    /\ probe.fn = "expandTags"
    /\ ~probe.done
    /\ probe' = [probe EXCEPT !.done = TRUE,
                              !.result = expandTags(latest.clients, config[1].clients)]
    /\ UNCHANGED <<config, group, latest, server, fetches>>
    /\ UNCHANGED handlerVars

\* the requests setAdGuardState(enabled) starts, with the drawn group and cache
DispatchCall ==
    /\ probe.fn = "setAdGuardState"
    /\ ~probe.done
    /\ probe' = [probe EXCEPT !.done = TRUE,
                              !.result = dispatch(config[1], latest, probe.enabled)]
    /\ UNCHANGED <<config, group, latest, server, fetches>>
    /\ UNCHANGED handlerVars

\* postClients: setBlockingConfig(clientConfig, blocking) on the cached record of kid
BlockingCall ==
    /\ probe.fn = "setBlockingConfig"
    /\ ~probe.done
    /\ probe' = [probe EXCEPT !.done = TRUE,
                              !.result = setBlockingConfig(latest.clients[1], probe.enabled)]
    /\ UNCHANGED <<config, group, latest, server, fetches>>
    /\ UNCHANGED handlerVars

NextRequests ==
    \/ ExpandCall
    \/ DispatchCall
    \/ BlockingCall

SpecRequests == InitRequests /\ [][NextRequests]_vars

----------------------------------------------------------------------------
(* The polling loop when an update of a group throws on its way to HomeKit *)

\* ticks of one run in which updateSwitchGroups throws
MaxThrows == 1

\* update(currentStatus) when serviceManager.updateHomeKit throws on the first switch:
\* _currentStatus and the target are assigned, the switches and _currentState are not
updateThrown(gs, cfg, cached, currentStatus) ==
    setTargetState([gs EXCEPT !._currentStatus = currentStatus],
                   getStateFromAdGuardStatus(cfg, cached, currentStatus))

\* updateSwitchGroups(currentStatus) whose forEach is ended by a throw at group k (k = 0:
\* nothing throws); only an update that has something to show reaches HomeKit
runGroups(groups, cfgs, cached, currentStatus, k) ==
    [g \in DOMAIN groups |->
        IF k = 0 \/ g < k THEN update(groups[g], cfgs[g], cached, currentStatus)
        ELSE IF g = k THEN updateThrown(groups[g], cfgs[g], cached, currentStatus)
        ELSE groups[g]]

canThrow(groups, cfgs, cached, currentStatus, k) ==
    /\ k \in DOMAIN groups
    /\ getStateFromAdGuardStatus(cfgs[k], cached, currentStatus) # groups[k]._currentState

\* the handler of the first .catch: currentStatus.isAvailable = false, in the one object
\* the groups updated so far hold as their _currentStatus
forcedUnavailable(status) == [status EXCEPT !.isAvailable = FALSE]

\* a handler of the second .catch that runs updateSwitchGroups once again
secondRun_Retried(groups, cfgs, cached, forced, k) ==
    LET again == runGroups(groups, cfgs, cached, forced, k)
    IN IF k = 0 THEN again ELSE runGroups(again, cfgs, cached, forced, 0)

\* the updateSwitchGroups of the first .catch; its own .catch only logs
secondRun(groups, cfgs, cached, forced, k) == runGroups(groups, cfgs, cached, forced, k)

\* what the last tick that threw was given and where its two runs threw
Thrown(n, status, k1, k2) ==
    [fn |-> "updateSwitchGroups", ticks |-> n, status |-> status, thrown |-> <<k1, k2>>]

\* a snapshot is delivered (ok: by the last answer; otherwise by a call that failed) and
\* the update of group k1 throws; the re-run throws at group k2, or not at all (k2 = 0)
UpdateThrows(i, call, ok, k1, k2) ==
    /\ probe.ticks < MaxThrows
    /\ i \in DOMAIN fetches
    /\ call \in fetches[i].pending
    /\ ok => fetches[i].pending = {call}
    /\ LET status == IF ok THEN storeAnswer(fetches[i].currentStatus, call, server)
                     ELSE failedStatus(fetches[i].currentStatus)
           cache == IF ok THEN storeAnswer(latest, call, server) ELSE latest
           forced == forcedUnavailable(status)
           run1 == runGroups(group, config, cache.clients, status, k1)
           held == [g \in DOMAIN group |->
                       IF g <= k1 THEN [run1[g] EXCEPT !._currentStatus = forced] ELSE run1[g]]
       IN /\ canThrow(group, config, cache.clients, status, k1)
          /\ k2 # 0 => canThrow(held, config, cache.clients, forced, k2)
          /\ latest' = cache
          /\ group' = secondRun(held, config, cache.clients, forced, k2)
          /\ fetches' = RemoveAt(fetches, i)
          /\ probe' = Thrown(probe.ticks + 1, status, k1, k2)
    /\ UNCHANGED <<config, server>>
    /\ UNCHANGED handlerVars

InitPropagate ==
    /\ config \in PollConfigs
    /\ \E cl \in AdminClientLists, en \in BOOLEAN : server = ServerState(en, <<"ads">>, cl)
    /\ \E answered \in SUBSET Calls :
        /\ latest = initialLatest(server, answered)
        /\ group = discoverDevices(config, latest.clients, initialStatus(server, answered))
    /\ fetches = <<>>
    /\ Quiet
    /\ probe = Thrown(0, NewAdGuardStatus, 0, 0)

NextPropagate ==
    \/ PollTickInTurn
    \/ \E i \in DOMAIN fetches, call \in Calls : FetchAnswer(i, call)
    \/ \E i \in DOMAIN fetches, call \in Calls : FetchFail(i, call)
    \/ \E i \in DOMAIN fetches, call \in Calls, ok \in BOOLEAN,
          k1 \in DOMAIN group, k2 \in {0} \cup DOMAIN group : UpdateThrows(i, call, ok, k1, k2)

SpecPropagate == InitPropagate /\ [][NextPropagate]_vars

----------------------------------------------------------------------------
(* The switch groups discoverDevices constructs from the configured switches *)

\* the characters of the names and timeout values drawn that match [a-zA-Z0-9]
AlphaNumeric == {"a", "b", "x", "0", "1", "5"}

\* groupName.replace(/([^a-zA-Z0-9]+)/g, '_'): every run of other characters becomes one _
RECURSIVE replaceRuns(_, _, _, _)
replaceRuns(name, i, out, inRun) ==
    IF i > Len(name) THEN out
    ELSE IF name[i] \in AlphaNumeric THEN replaceRuns(name, i + 1, Append(out, name[i]), FALSE)
    ELSE replaceRuns(name, i + 1, IF inRun THEN out ELSE Append(out, "_"), TRUE)

\* the timer file of a group, below the storage path of the bridge
timerFilePath(groupName) == <<"/agh_plus/">> \o replaceRuns(groupName, 1, <<>>, FALSE) \o <<"/timer">>

\* parseInt(str): a sign, then the digits up to the first other character; <<>> is NaN
RECURSIVE parseDigits(_, _, _)
parseDigits(str, i, acc) ==
    IF i > Len(str) \/ str[i] \notin {ToString(d) : d \in 0..9} THEN acc
    ELSE parseDigits(str, i + 1, 10 * acc + (CHOOSE d \in 0..9 : ToString(d) = str[i]))

parseInt(str) ==
    LET signed == Len(str) > 0 /\ str[1] \in {"-", "+"}
        first == IF signed THEN 2 ELSE 1
    IN IF first > Len(str) \/ str[first] \notin {ToString(d) : d \in 0..9} THEN <<>>
       ELSE <<(IF signed /\ str[1] = "-" THEN -1 ELSE 1) * parseDigits(str, first, 0)>>

\* a configured switch; autoResetTimes is its value split at the commas, <<>> when undefined
Switch(name, bridged, autoResetTimes) ==
    [name |-> name, bridged |-> bridged, autoResetTimes |-> autoResetTimes]

\* discoverDevices: the autoResetTimes each AGHGroup of a switch is constructed with
actualTimeouts(switchConfig) ==
    IF switchConfig.bridged THEN <<switchConfig.autoResetTimes>>
    ELSE IF switchConfig.autoResetTimes = <<>> THEN << <<<<"0">>>> >>
    ELSE [t \in DOMAIN switchConfig.autoResetTimes |-> <<switchConfig.autoResetTimes[t]>>]

\* the constructor throws on a timeout value that parses to NaN or below 0
RECURSIVE constructorThrows(_, _)
constructorThrows(timeoutValues, i) ==
    IF i > Len(timeoutValues) THEN FALSE
    ELSE LET timeout == parseInt(timeoutValues[i])
         IN IF timeout = <<>> THEN TRUE
            ELSE IF timeout[1] < 0 THEN TRUE
            ELSE constructorThrows(timeoutValues, i + 1)

\* the AGHGroup instances discoverDevices sets out to construct, in order
RECURSIVE plannedGroups(_, _)
plannedGroups(switches, s) ==
    IF s > Len(switches) THEN <<>>
    ELSE [t \in DOMAIN actualTimeouts(switches[s]) |->
             [switch |-> s,
              groupName |-> switches[s].name,
              timerFile |-> timerFilePath(switches[s].name),
              autoResetTimes |-> IF actualTimeouts(switches[s])[t] = <<>> THEN << <<"0">> >>
                                 ELSE actualTimeouts(switches[s])[t]]]
         \o plannedGroups(switches, s + 1)

\* the instances constructed: all of them, or those before the first whose constructor throws
switchGroups(switches) ==
    LET planned == plannedGroups(switches, 1)
        throwing == {n \in DOMAIN planned : constructorThrows(planned[n].autoResetTimes, 1)}
    IN IF throwing = {} THEN planned
       ELSE SubSeq(planned, 1, (CHOOSE n \in throwing : \A m \in throwing : n <= m) - 1)

\* names that differ in other characters only, timeout values good and bad
SwitchNames == {<<"a", "b">>, <<"a", " ", "b">>, <<"a", "-", "b">>, <<"a", " ", "-", "b">>, <<"b">>}

TimeoutValues ==
    {<<>>, << <<"0">> >>, << <<"5">> >>, << <<"5">>, <<"1", "0">> >>, << <<"x">> >>,
     << <<"5">>, <<"-", "1">> >>}

Switches ==
    LET one == {Switch(n, b, t) : n \in SwitchNames, b \in BOOLEAN, t \in TimeoutValues}
    IN {<<s>> : s \in one}
       \cup {<<s, Switch(n, TRUE, t)>> :
                s \in one, n \in {<<"b">>, <<"a", "-", "b">>}, t \in {<<>>, << <<"5">> >>}}

InitDiscover ==
    /\ config = <<GroupConfig(<<>>, <<>>, TRUE, FALSE, <<0>>)>>
    /\ latest = NewAdGuardStatus
    /\ group = [g \in {1} |-> newGroup(config[g], latest.clients, NewAdGuardStatus)]
    /\ server = NoServer
    /\ fetches = <<>>
    /\ Quiet
    /\ \E sw \in Switches :
          probe = [fn |-> "didFinishLaunching", done |-> FALSE, switches |-> sw,
                   switchGroups |-> <<>>, polling |-> FALSE, restoring |-> {}]

\* the didFinishLaunching callback after the first fetch: discoverDevices, and, when it
\* has not thrown, pollAdGuardStatusLoop and restoreUnfinishedTimers
DidFinishLaunching ==
    /\ probe.fn = "didFinishLaunching"
    /\ ~probe.done
    /\ LET built == switchGroups(probe.switches)
           thrown == Len(built) < Len(plannedGroups(probe.switches, 1))
       IN probe' = [probe EXCEPT !.done = TRUE,
                                 !.switchGroups = built,
                                 !.polling = ~thrown,
                                 !.restoring = IF thrown THEN {} ELSE DOMAIN built]
    /\ UNCHANGED <<config, group, latest, server, fetches>>
    /\ UNCHANGED handlerVars

NextDiscover == DidFinishLaunching

SpecDiscover == InitDiscover /\ [][NextDiscover]_vars

----------------------------------------------------------------------------
(* A toggle right after the launch, then the polling loop with the server edited meanwhile *)

\* a client-scoped and a global group over a server without clients
InitReconcile ==
    /\ config = <<GroupConfig(<<AtFamily>>, <<>>, TRUE, FALSE, <<0>>),
                  GroupConfig(<<>>, <<>>, TRUE, FALSE, <<0>>)>>
    /\ \E en \in BOOLEAN : server = ServerState(en, <<"ads">>, <<>>)
    /\ latest = initialLatest(server, Calls)
    /\ group = discoverDevices(config, latest.clients, initialStatus(server, Calls))
    /\ fetches = <<>>
    /\ Quiet
    /\ probe = NoProbe

\* the user toggles a switch before the first tick of the loop; the ticks that follow
\* the end of the toggle may overlap, and a client is added at the server meanwhile
NextReconcile ==
    \/ \E g \in DOMAIN config, value \in BOOLEAN : HandleHomeKitSetEvent(g, value, 0)
    \/ \E sl \in Slots, ok \in BOOLEAN : TimerWriteDone(sl, ok)
    \/ \E sl \in Slots, ok \in BOOLEAN : PostDone(sl, 1, ok)
    \/ \E g \in DOMAIN config : DeferredRender(g)
    \/ (toggles # <<>> /\ toggles[1].outcome # "pending" /\ deferred = [g \in DOMAIN config |-> 0])
          /\ PollTick
    \/ \E i \in DOMAIN fetches, call \in Calls : FetchAnswer(i, call)
    \/ \E i \in DOMAIN fetches, call \in Calls : FetchFail(i, call)
    \/ server.clients = <<>> /\ AdminEdit
          /\ server'.clients = <<PlainClient(Kid, <<Family>>)>>
          /\ server'.protection_enabled = server.protection_enabled

SpecReconcile == InitReconcile /\ [][NextReconcile]_vars

----------------------------------------------------------------------------
(* Claims about the state derivation (SpecPure) *)

Range(list) == {list[i] : i \in 1..Len(list)}

\* update(probe.status) has run on group g
Derived(g) == probe.fn = "update" /\ probe.done

\* the snapshot has a record named c; its first such record
Present(status, c) == \E i \in 1..Len(status.clients) : status.clients[i].name = c

RecordOf(status, c) ==
    status.clients[CHOOSE i \in 1..Len(status.clients) :
                      /\ status.clients[i].name = c
                      /\ \A j \in 1..(i - 1) : status.clients[j].name # c]

\* the clients the selectors of group g resolve to
Resolved(g) == Range(expandTags(latest.clients, config[g].clients))

\* C2: a snapshot with available = false derives Unavailable for every group shape,
\* whatever its other fields and the cache hold, and an available snapshot never does
C2_UnavailableIffNotAvailable ==
    \A g \in DOMAIN config :
        Derived(g) =>
            (group[g]._currentState = UNAVAILABLE <=> ~group[g]._currentStatus.isAvailable)

C2_Witness ==
    /\ Derived(1)
    /\ ~isGlobal(config[1])
    /\ ~probe.status.isAvailable
    /\ Len(probe.status.clients) = 2
    /\ latest.clients # <<>>
    /\ group[1]._currentState = UNAVAILABLE

\* C3: a global group without service selectors derives Blocking from an available
\* snapshot whose protection flag is true and Disabled when it is false, never Inconsistent
C3_GlobalFollowsEnabled ==
    \A g \in DOMAIN config :
        (Derived(g) /\ isGlobal(config[g]) /\ ~isSelectServices(config[g])
            /\ probe.status.isAvailable) =>
            /\ probe.status.enabled = "true" => group[g]._currentState = BLOCKING
            /\ probe.status.enabled = "false" => group[g]._currentState = DISABLED
            /\ group[g]._currentState # INCONSISTENT

C3_Witness ==
    /\ Derived(1)
    /\ isGlobal(config[1]) /\ ~isSelectServices(config[1])
    /\ probe.status.isAvailable
    /\ probe.status.enabled = "false"
    /\ config[1].defaultState
    /\ group[1]._currentState = DISABLED

\* 1 when every element of subset is in superset, -1 when subset is not empty and none
\* of its elements is, 0 otherwise
AllOrNone(superset, subset) ==
    IF Range(subset) \subseteq Range(superset) THEN 1
    ELSE IF Range(subset) \cap Range(superset) = {} THEN -1
    ELSE 0

StateOfCmp(cmp) == IF cmp > 0 THEN BLOCKING ELSE IF cmp < 0 THEN DISABLED ELSE INCONSISTENT

\* C4: containsAllOrNone returns 1 / -1 / 0 for all / none / some (1 for an empty
\* subset), and a global group with service selectors derives Blocking / Disabled /
\* Inconsistent from it applied to (blocked_services, services)
C4_ContainsAllOrNone ==
    /\ (probe.fn = "containsAllOrNone" /\ probe.done) =>
            /\ probe.result = AllOrNone(probe.superset, probe.subset)
            /\ probe.subset = <<>> => probe.result = 1
    /\ \A g \in DOMAIN config :
        (Derived(g) /\ isGlobal(config[g]) /\ isSelectServices(config[g])
            /\ probe.status.isAvailable) =>
            group[g]._currentState =
                StateOfCmp(AllOrNone(probe.status.blocked_services, config[g].services))

C4_Witness ==
    /\ probe.fn = "containsAllOrNone" /\ probe.done
    /\ probe.subset = <<>>
    /\ probe.superset # <<>>
    /\ probe.result = 1

\* C5: a client-scoped group with service selectors is Blocking iff every resolved
\* client is in the snapshot and blocks all selected services, else Disabled iff every
\* resolved client that is in the snapshot blocks none of them, else Inconsistent
BlocksAll(status, c, services) ==
    Range(services) \subseteq Range(RecordOf(status, c).blocked_services)

BlocksNone(status, c, services) ==
    Range(services) \cap Range(RecordOf(status, c).blocked_services) = {}

C5_ClientServices ==
    \A g \in DOMAIN config :
        (Derived(g) /\ ~isGlobal(config[g]) /\ isSelectServices(config[g])
            /\ probe.status.isAvailable) =>
            LET st == probe.status
                sv == config[g].services
                all == \A c \in Resolved(g) : Present(st, c) /\ BlocksAll(st, c, sv)
                none == \A c \in Resolved(g) : Present(st, c) => BlocksNone(st, c, sv)
            IN group[g]._currentState =
                 IF all THEN BLOCKING ELSE IF none THEN DISABLED ELSE INCONSISTENT

\* two resolved clients, one blocking both selected services and one blocking neither
C5_Witness ==
    /\ Derived(1)
    /\ probe.status.isAvailable
    /\ config[1].services = <<"ads", "tracking">>
    /\ Resolved(1) = {Kid, Tv1}
    /\ Present(probe.status, Kid) /\ Present(probe.status, Tv1)
    /\ BlocksAll(probe.status, Kid, config[1].services)
    /\ RecordOf(probe.status, Tv1).blocked_services = <<>>
    /\ group[1]._currentState = INCONSISTENT

\* the seven switches the claim lists
EnabledBySeven(rec) ==
    \/ rec.use_global_settings
    \/ rec.use_global_blocked_services
    \/ rec.blocked_services # <<>>
    \/ rec.filtering_enabled
    \/ rec.parental_enabled
    \/ rec.safebrowsing_enabled
    \/ rec.safesearch_enabled

\* the state of a client-scoped group without service selectors when enabled(rec)
\* says which records have blocking enabled
ClientBlockingState(g, enabled(_)) ==
    LET st == probe.status
        all == \A c \in Resolved(g) : Present(st, c) /\ enabled(RecordOf(st, c))
        none == \A c \in Resolved(g) : Present(st, c) => ~enabled(RecordOf(st, c))
    IN IF all THEN BLOCKING ELSE IF none THEN DISABLED ELSE INCONSISTENT

ClientBlockingCase(g) ==
    Derived(g) /\ ~isGlobal(config[g]) /\ ~isSelectServices(config[g]) /\ probe.status.isAvailable

\* C6 as claimed: blocking enabled iff one of the seven listed switches is on, no other
\* field of the record having a say
C6_SevenFieldsOnly ==
    \A g \in DOMAIN config :
        ClientBlockingCase(g) => group[g]._currentState = ClientBlockingState(g, EnabledBySeven)

EnabledByEight(rec) == EnabledBySeven(rec) \/ rec.safe_search = "on"

\* C6 amended: blocking enabled iff one of the seven listed switches or the nested
\* safe_search.enabled is on; Blocking iff every resolved client is in the snapshot
\* with blocking enabled, else Disabled iff no resolved client in the snapshot has it
C6_ClientBlocking ==
    \A g \in DOMAIN config :
        ClientBlockingCase(g) => group[g]._currentState = ClientBlockingState(g, EnabledByEight)

\* one resolved client whose only switch on is the nested safe_search.enabled
C6_Witness ==
    /\ ClientBlockingCase(1)
    /\ Resolved(1) = {Kid}
    /\ Present(probe.status, Kid)
    /\ ~EnabledBySeven(RecordOf(probe.status, Kid))
    /\ RecordOf(probe.status, Kid).safe_search = "on"
    /\ group[1]._currentState = BLOCKING

----------------------------------------------------------------------------
(* Claims about the polling loop (SpecPoll) *)

\* C7: the derived state is a function of the group's configuration and the snapshot
\* alone: the state every group took from the snapshot last passed to update() is the
\* state that snapshot gives with the selectors resolved against its own client list,
\* whatever the cache held at the time of the call
C7_DerivedFromSnapshotAlone ==
    \A g \in DOMAIN config :
        group[g]._currentState =
            getStateFromAdGuardStatus(config[g], group[g]._currentStatus.clients,
                                      group[g]._currentStatus)

----------------------------------------------------------------------------
(* Claims about toggles and the target state (Spec) *)

Consistent == {BLOCKING, DISABLED}

\* the step is a toggle of group g
ToggleOf(g) == Len(toggles') = Len(toggles) + 1 /\ toggles'[Len(toggles')].g = g

\* the step ends a toggle of group g whose setAdGuardState failed
FailedMutation(g) ==
    \E i \in DOMAIN toggles :
        /\ toggles[i].g = g
        /\ toggles[i].outcome = "pending"
        /\ toggles'[i].outcome = "failed"

\* C1: in every reachable state the targetState of a group is Blocking or Disabled, and
\* assigning Inconsistent or Unavailable to it (through its setter, the currentState
\* setter or updateHomeKit) leaves it as it was; so does an update() that derives
\* Inconsistent or Unavailable, and so does a toggle whose mutation failed
C1_TargetStateConsistent ==
    /\ [](\A g \in DOMAIN group :
            /\ group[g]._targetState \in Consistent
            /\ \A v \in AdGuardHomeState \ Consistent :
                /\ setTargetState(group[g], v)._targetState = group[g]._targetState
                /\ setCurrentState(group[g], v)._targetState = group[g]._targetState
                /\ updateHomeKit(group[g], v, v)._targetState = group[g]._targetState)
    /\ [][\A g \in DOMAIN group :
            /\ (Len(fetches') < Len(fetches) /\ group'[g]._currentState \notin Consistent)
                  => group'[g]._targetState = group[g]._targetState
            /\ FailedMutation(g)
                  => /\ group'[g]._currentState = UNAVAILABLE
                     /\ group'[g]._targetState = group[g]._targetState]_vars

\* a toggle set the group to a consistent state, a later poll derived Inconsistent, and
\* the target is still the state toggled to
C1_Witness ==
    \E g \in DOMAIN group, i \in DOMAIN toggles :
        /\ toggles[i].g = g
        /\ toggles[i].outcome = "succeeded"
        /\ group[g]._currentState = INCONSISTENT
        /\ group[g]._currentStatus.isAvailable
        /\ getStateFromAdGuardStatus(config[g], latest.clients, group[g]._currentStatus)
              = INCONSISTENT
        /\ group[g]._targetState = toAGHState(toggles[i].value)

\* the invocation p of a slot is q after the step and has moved on (the history of
\* overlaps apart, which a step of another invocation may set)
Stepped(p, q) == [q EXCEPT !.overlapped = p.overlapped] # p

\* C8: a toggle of a group that is Inconsistent and has forceState false is rejected:
\* nothing is requested of the server, no timer is cancelled or set, no file is written
\* or about to be, currentState and targetState stay, and a render of the state is
\* deferred, which leaves both as they are
C8_RejectedToggle ==
    [][\A g \in DOMAIN config :
          (/\ ToggleOf(g)
           /\ group[g]._currentState = INCONSISTENT
           /\ ~config[g].forceState)
          => /\ toggles'[Len(toggles')].outcome = "rejected"
             /\ procs' = procs
             /\ server' = server
             /\ timers' = timers
             /\ timerFile' = timerFile
             /\ clientStore' = clientStore
             /\ group' = group
             /\ deferred'[g] = deferred[g] + 1
             /\ LET shown == updateHomeKit(group[g], group[g]._currentState,
                                           group[g]._targetState)
                IN /\ shown._currentState = group[g]._currentState
                   /\ shown._targetState = group[g]._targetState]_vars

\* a toggle was rejected on an Inconsistent group while an expiry was pending, and the
\* expiry is pending still
C8_Witness ==
    \E g \in DOMAIN config, i \in DOMAIN toggles :
        /\ toggles[i].g = g
        /\ toggles[i].from = INCONSISTENT
        /\ toggles[i].outcome = "rejected"
        /\ ~config[g].forceState
        /\ group[g]._currentState = INCONSISTENT
        /\ toggles[i].timer # 0
        /\ \E t \in timers : t.g = g /\ t.id = toggles[i].timer /\ t.due = timerFile[g]

\* C9: a toggle of a group that is Inconsistent and has forceState true goes on:
\* startNewTimer and then setAdGuardState run with the value toggled to, the requests
\* being those of the group's shape for that value, and when setAdGuardState succeeds
\* currentState and targetState are both the state of that value
C9_ForcedToggle ==
    [][\A g \in DOMAIN config :
          /\ (/\ ToggleOf(g)
              /\ group[g]._currentState = INCONSISTENT
              /\ config[g].forceState)
             => /\ toggles'[Len(toggles')].outcome = "pending"
                /\ \E sl \in Slots :
                      /\ procs[sl].kind = "none"
                      /\ procs'[sl].kind = "toggle"
                      /\ procs'[sl].g = g
                      /\ procs'[sl].toggle = Len(toggles')
                      /\ procs'[sl].agState = toggles'[Len(toggles')].value
                      /\ procs'[sl].setAfter
          /\ \A sl \in Slots :
                (/\ procs[sl].kind = "toggle"
                 /\ procs[sl].g = g
                 /\ toggles[procs[sl].toggle].from = INCONSISTENT
                 /\ procs[sl].pc = "timerWrite"
                 /\ Stepped(procs[sl], procs'[sl]))
                => LET reqs == dispatch(config[g], latest, procs[sl].agState)
                   IN /\ group'[g]._targetState = toAGHState(procs[sl].agState)
                      /\ IF reqs = <<>>
                         THEN toggles'[procs[sl].toggle].outcome = "succeeded"
                         ELSE /\ procs'[sl].pc = "post"
                              /\ procs'[sl].reqs = reqs
          /\ \A i \in DOMAIN toggles :
                (/\ toggles[i].g = g
                 /\ toggles[i].from = INCONSISTENT
                 /\ toggles[i].outcome = "pending"
                 /\ toggles'[i].outcome = "succeeded")
                => /\ group'[g]._currentState = toAGHState(toggles[i].value)
                   /\ group'[g]._targetState = toAGHState(toggles[i].value)]_vars

\* a forced toggle of an Inconsistent group has succeeded, and the group is in the
\* state toggled to
C9_Witness ==
    \E g \in DOMAIN config, i \in DOMAIN toggles :
        /\ toggles[i].g = g
        /\ toggles[i].from = INCONSISTENT
        /\ toggles[i].outcome = "succeeded"
        /\ config[g].forceState
        /\ group[g]._currentState = toAGHState(toggles[i].value)
        /\ group[g]._targetState = toAGHState(toggles[i].value)

\* C10: an accepted toggle to value v on a switch of timeout t calls startNewTimer with
\* t if v is not the default state and with 0 if it is: the group's timer is cleared and
\* the deadline (or 0) is being written, with nothing requested yet; when the write has
\* ended the timer is set for t minutes (none for 0), and only then the requests go out;
\* the steps that settle the requests, fulfilled or rejected, leave timer and file alone
C10_TimerBeforeMutation ==
    [][\A sl \in Slots :
          LET p == procs[sl]
              q == procs'[sl]
          IN /\ (p.kind = "none" /\ q.kind = "toggle")
                => LET tg == toggles'[q.toggle]
                   IN /\ q.minutes = IF tg.value # config[q.g].defaultState
                                     THEN tg.timeout ELSE 0
                      /\ q.writing = IF q.minutes = 0 THEN 0
                                     ELSE now + q.minutes * MsPerMinute
                      /\ q.pc = "timerWrite"
                      /\ q.reqs = <<>>
                      /\ server' = server
                      /\ timers' = {t \in timers : t.id # group[q.g]._currentTimer}
                      /\ timerFile' = timerFile
             /\ (p.kind = "toggle" /\ p.pc = "timerWrite" /\ Stepped(p, q))
                => /\ timerFile'[p.g] \in {p.writing, timerFile[p.g]}
                   /\ server' = server
                   /\ q.kind = "none" \/ q.pc = "post"
                   /\ IF p.minutes > 0
                      THEN \E t \in timers' :
                              /\ t \notin timers
                              /\ timers' = timers \cup {t}
                              /\ t.g = p.g
                              /\ t.due = now + p.minutes * MsPerMinute
                              /\ group'[p.g]._currentTimer = t.id
                      ELSE /\ timers' = timers
                           /\ group'[p.g]._currentTimer = group[p.g]._currentTimer
             /\ (p.kind = "toggle" /\ p.pc = "post" /\ Stepped(p, q))
                => /\ timers' = timers
                   /\ timerFile' = timerFile
                   /\ group'[p.g]._currentTimer = group[p.g]._currentTimer]_vars

\* a toggle away from the default state on the one-minute switch has failed at the
\* server, and its timer is pending with the deadline in the file
C10_Witness ==
    \E g \in DOMAIN config, i \in DOMAIN toggles :
        /\ toggles[i].g = g
        /\ toggles[i].outcome = "failed"
        /\ toggles[i].value # config[g].defaultState
        /\ toggles[i].timeout = 1
        /\ group[g]._currentState = UNAVAILABLE
        /\ \E t \in timers :
              /\ t.g = g
              /\ t.id = group[g]._currentTimer
              /\ timerFile[g] = t.due

----------------------------------------------------------------------------
(* Claims about the timer of a group (Spec) *)

\* the callback of timer t runs in this step
Fires(t) ==
    /\ t \in timers
    /\ t \notin timers'
    /\ \E sl \in Slots :
          /\ procs[sl].kind = "none"
          /\ procs'[sl].kind = "expire"
          /\ procs'[sl].g = t.g
          /\ procs'[sl].arm = t.arm

\* C11: the expiry action of an arm that a later arm on the same group has superseded
\* never fires: whenever a timer callback runs, the call of startNewTimer that set the
\* timer is the last call of startNewTimer on its group
C11_NoSupersededExpiry ==
    [][\A t \in timers : Fires(t) => t.arm = arms[t.g]]_vars

\* the timer callback in slot sl takes a step that ends it
ExpireEnds(sl) == procs[sl].kind = "expire" /\ procs'[sl].kind = "none"

\* C12: expire() in its order: the callback first writes 0 to the timer file, with
\* nothing requested and nothing shown; when the write has settled it calls
\* setAdGuardState(defaultState); nothing is shown while requests are out; the step that
\* settles the last request shows the resulting state (the default state, or
\* Unavailable when a request failed) as the current value and the default state as
\* the target value
C12_ExpireOrder ==
    [][/\ \A t \in timers :
            Fires(t) =>
               \E sl \in Slots :
                  /\ procs[sl].kind = "none"
                  /\ procs'[sl] = [NoProc EXCEPT !.kind = "expire", !.g = t.g, !.arm = t.arm,
                                                 !.pc = "timerWrite", !.writing = 0,
                                                 !.setAfter = TRUE,
                                                 !.agState = config[t.g].defaultState]
                  /\ group' = group
                  /\ timerFile' = timerFile
                  /\ server' = server
       /\ \A sl \in Slots :
            LET p == procs[sl]
                q == procs'[sl]
                default == toAGHState(config[p.g].defaultState)
            IN (p.kind = "expire" /\ Stepped(p, q)) =>
                  /\ p.pc = "timerWrite" =>
                        /\ timerFile'[p.g] \in {0, timerFile[p.g]}
                        /\ server' = server
                        /\ q.kind = "expire" =>
                              /\ q.pc = "post"
                              /\ q.target = default
                              /\ q.reqs = dispatch(config[p.g], latest, config[p.g].defaultState)
                              /\ q.reqs # <<>>
                              /\ group'[p.g].switches = group[p.g].switches
                        /\ q.kind = "none" =>
                              dispatch(config[p.g], latest, config[p.g].defaultState) = <<>>
                  /\ p.pc = "post" =>
                        /\ timerFile' = timerFile
                        /\ q.kind = "expire" => group'[p.g] = group[p.g]
                  /\ q.kind = "none" =>
                        /\ group'[p.g]._currentState \in {default, UNAVAILABLE}
                        /\ (\E k \in DOMAIN p.reqs : p.reqs[k].stage = "rejected")
                              => group'[p.g]._currentState = UNAVAILABLE
                        /\ group'[p.g].switches =
                              [main |-> group'[p.g]._currentState, target |-> default]
                        /\ group'[p.g]._targetState = default]_vars

\* the timer of a toggle that succeeded on a client-scoped group has expired, the request
\* of the callback has failed, and the switches show Unavailable with the default state
\* as the target
C12_Witness ==
    \E g \in DOMAIN config :
        /\ ~isGlobal(config[g])
        /\ Len(toggles) = 1
        /\ toggles[1].outcome = "succeeded"
        /\ toggles[1].timeout = 1
        /\ toggles[1].value # config[g].defaultState
        /\ arms[g] = 2
        /\ timers = {}
        /\ timerFile[g] = 0
        /\ \A sl \in Slots : procs[sl].kind = "none"
        /\ now >= StartNow + MsPerMinute
        /\ group[g]._currentStatus.isAvailable
        /\ group[g]._currentState = UNAVAILABLE
        /\ group[g].switches = [main |-> UNAVAILABLE,
                                target |-> toAGHState(config[g].defaultState)]

\* C12 as stated: when the callback ends, the resulting state is shown as both the
\* current and the target value
C12_ResultShownAsTarget ==
    [][\A sl \in Slots :
          ExpireEnds(sl) =>
             group'[procs[sl].g].switches =
                [main |-> group'[procs[sl].g]._currentState,
                 target |-> group'[procs[sl].g]._currentState]]_vars

----------------------------------------------------------------------------
(* Claims about restoreUnfinishedTimers (SpecRestore) *)

\* the timer file of group g holds a deadline
HoldsDeadline(g) == timerFile[g] \notin {AbsentFile, GarbageFile, 0}

\* restoreUnfinishedTimers in slot sl takes a step
RestoreStep(sl) == procs[sl].kind = "restore" /\ Stepped(procs[sl], procs'[sl])

\* C13: restoreUnfinishedTimers over a deadline that has passed does what one expiry
\* does: it calls startNewTimer not at all and sets no timer, it writes 0 to the timer
\* file, and when the write has settled it issues the one mutation to the default state
\* and ends with it; over a file that holds 0 (what the write leaves) it issues no
\* mutation. (A read that fails is taken for a file that is not there: 0 is written then
\* and nothing else done.)
C13_RestoreExpired ==
    [][\A sl \in Slots :
          LET p == procs[sl]
              q == procs'[sl]
              g == p.g
              default == toAGHState(config[g].defaultState)
          IN RestoreStep(sl) =>
                /\ (p.pc = "timerRead" /\ HoldsDeadline(g) /\ now >= timerFile[g]) =>
                      /\ arms' = arms
                      /\ timers' = timers
                      /\ server' = server
                      /\ timerFile' = timerFile
                      /\ \/ q = [p EXCEPT !.pc = "timerWrite", !.writing = 0, !.setAfter = TRUE,
                                          !.agState = config[g].defaultState]
                         \/ q = [p EXCEPT !.pc = "timerWrite", !.writing = 0]
                /\ (p.pc = "timerWrite" /\ p.setAfter) =>
                      /\ timerFile'[g] \in {0, timerFile[g]}
                      /\ timers' = timers
                      /\ server' = server
                      /\ q.pc = "post"
                      /\ q.target = default
                      /\ q.reqs = dispatch(config[g], latest, config[g].defaultState)
                      /\ Len(q.reqs) = 1
                /\ p.pc = "post" =>
                      /\ q = NoProc
                      /\ timerFile' = timerFile
                      /\ timers' = timers
                      /\ group'[g]._currentState \in {default, UNAVAILABLE}
                /\ (p.pc = "timerRead" /\ timerFile[g] = 0) =>
                      /\ q = [p EXCEPT !.pc = "timerWrite", !.writing = 0]
                      /\ timers' = timers
                      /\ server' = server
                /\ (p.pc = "timerWrite" /\ ~p.setAfter /\ p.minutes = 0) =>
                      /\ q = NoProc
                      /\ timerFile'[g] \in {0, timerFile[g]}
                      /\ server' = server
                      /\ group' = group]_vars

\* the global group, default state on, was launched over a deadline that had passed with
\* protection off at the server: restoreUnfinishedTimers has ended, protection is on, the
\* timer file holds 0 and no timer was set
C13_Witness ==
    \E g \in DOMAIN config :
        /\ isGlobal(config[g]) /\ ~isSelectServices(config[g])
        /\ config[g].defaultState
        /\ server.protection_enabled
        /\ server.ids = <<"ads">>
        /\ \A sl \in Slots : procs[sl].kind = "none"
        /\ arms[g] = 0
        /\ timers = {}
        /\ timerFile[g] = 0
        /\ group[g]._currentState = BLOCKING
        /\ group[g].switches = [main |-> BLOCKING, target |-> BLOCKING]

\* C14: restoreUnfinishedTimers over a deadline d still to come calls startNewTimer with
\* the least whole number m of minutes that reaches d, which writes d' = now + m minutes
\* to the timer file, so d <= d' < d + 60000 ms (m = 5 for the deadline of a timer of five
\* minutes set a moment before); when the write has settled exactly one timer is set, for
\* m minutes, and nothing is requested of the server. (A read that fails is taken for a
\* file that is not there.)
C14_RestorePending ==
    [][\A sl \in Slots :
          LET p == procs[sl]
              q == procs'[sl]
              g == p.g
              d == timerFile[g]
          IN RestoreStep(sl) =>
                /\ (p.pc = "timerRead" /\ HoldsDeadline(g) /\ now < d) =>
                      /\ timers' = timers
                      /\ server' = server
                      /\ timerFile' = timerFile
                      /\ \/ /\ q = [p EXCEPT !.pc = "timerWrite", !.arm = arms[g] + 1,
                                             !.minutes = q.minutes, !.writing = q.writing]
                            /\ arms' = [arms EXCEPT ![g] = @ + 1]
                            /\ q.minutes > 0
                            /\ (q.minutes - 1) * MsPerMinute < d - now
                            /\ d - now <= q.minutes * MsPerMinute
                            /\ q.writing = now + q.minutes * MsPerMinute
                            /\ d <= q.writing
                            /\ q.writing < d + MsPerMinute
                            /\ d - now > 5 * MsPerMinute - 1000 /\ d - now <= 5 * MsPerMinute
                                  => q.minutes = 5
                         \/ /\ q = [p EXCEPT !.pc = "timerWrite", !.writing = 0]
                            /\ arms' = arms
                /\ (p.pc = "timerWrite" /\ p.minutes > 0) =>
                      /\ q = NoProc
                      /\ server' = server
                      /\ timerFile'[g] \in {p.writing, timerFile[g]}
                      /\ \E t \in timers' :
                            /\ t \notin timers
                            /\ timers' = timers \cup {t}
                            /\ t.g = g
                            /\ t.arm = p.arm
                            /\ t.due = now + p.minutes * MsPerMinute
                            /\ group'[g]._currentTimer = t.id]_vars

\* launched over a deadline a minute and a half ahead: the timer file holds the deadline
\* two minutes after the launch, and the one timer set is the group's
C14_Witness ==
    \E g \in DOMAIN config :
        /\ timerFile[g] = StartNow + 2 * MsPerMinute
        /\ arms[g] = 1
        /\ \A sl \in Slots : procs[sl].kind = "none"
        /\ Cardinality(timers) = 1
        /\ \E t \in timers :
              /\ t.g = g
              /\ t.arm = 1
              /\ t.id = group[g]._currentTimer
              /\ t.due \in {timerFile[g], StartNow + 3 * MsPerMinute}

----------------------------------------------------------------------------
(* Claims about the mutation protocol (SpecClients) *)

\* the requests of a dispatch that are on the wire
OnTheWire(reqs) == {k \in DOMAIN reqs : reqs[k].stage = "post"}

\* a request of the dispatch has been rejected
SomeRejected(reqs) == \E k \in DOMAIN reqs : reqs[k].stage = "rejected"

\* C15: a dispatch reports success iff every request of it succeeded: setAdGuardState
\* goes on only when the last request on the wire is settled; it then reports failure
\* (the group becomes Unavailable) if a request was rejected before, or if the last one
\* fails or times out, which leaves the server as it was; it reports success (the group
\* takes the desired state) only with no request rejected and the last one accepted by
\* the server; a dispatch of no request reports success
C15_SuccessIffAllSucceeded ==
    [][\A sl \in Slots :
          LET p == procs[sl]
              q == procs'[sl]
              g == p.g
              success == group'[g]._currentState = toAGHState(p.agState)
          IN /\ (p.pc = "post" /\ Stepped(p, q) /\ q.kind # "none") =>
                   /\ group'[g]._currentState = group[g]._currentState
                   /\ toggles' = toggles
                   /\ \E k \in DOMAIN p.reqs : q.reqs[k].stage # "fulfilled"
                                                /\ q.reqs[k].stage # "rejected"
             /\ (p.pc = "post" /\ q.kind = "none") =>
                   /\ \E k \in DOMAIN p.reqs :
                         /\ OnTheWire(p.reqs) = {k}
                         /\ \A j \in DOMAIN p.reqs \ {k} :
                               p.reqs[j].stage \in {"fulfilled", "rejected"}
                         /\ success => server' = applyPost(server, p.reqs[k].payload)
                         /\ (~success /\ ~SomeRejected(p.reqs)) => server' = server
                   /\ group'[g]._currentState \in {toAGHState(p.agState), UNAVAILABLE}
                   /\ SomeRejected(p.reqs) => ~success
                   /\ p.kind = "toggle" =>
                         toggles'[p.toggle].outcome = IF success THEN "succeeded" ELSE "failed"
             /\ (p.pc = "timerWrite" /\ p.setAfter /\ q.kind = "none") =>
                   /\ dispatch(config[g], latest, p.agState) = <<>>
                   /\ success]_vars

\* a toggle of the group over two clients has failed with the request for the first
\* client accepted (the client is disabled at the server) and the one for the second
\* client not (it is as it was set up)
C15_Witness ==
    \E g \in DOMAIN config :
        /\ ~isGlobal(config[g]) /\ ~isSelectServices(config[g])
        /\ Len(toggles) = 1
        /\ toggles[1].outcome = "failed"
        /\ ~toggles[1].value
        /\ Len(server.clients) = 2
        /\ server.clients[1] = setBlockingConfig(ClientsSetUp[1], FALSE)
        /\ server.clients[2] = ClientsSetUp[2]
        /\ group[g]._currentState = UNAVAILABLE

\* C16: setAdGuardState(desired) assigns the desired state to targetState when it
\* begins; when it completes with success, currentState and targetState are the desired
\* state; when it completes with failure, currentState is Unavailable and the completion
\* leaves targetState as it finds it (after the timer callback and after the restore, the
\* updateHomeKit that follows at once assigns it the desired state, their default state);
\* no step of a handler starts a fetch
C16_SetStateOutcome ==
    [][\A sl \in Slots :
          LET p == procs[sl]
              q == procs'[sl]
              g == p.g
              desired == toAGHState(p.agState)
          IN (p.kind # "none" /\ Stepped(p, q)) =>
                /\ fetches' = fetches
                /\ latest' = latest
                /\ (p.pc = "timerWrite" /\ p.setAfter /\ q.pc = "post") =>
                      /\ group'[g]._targetState = desired
                      /\ group'[g]._currentState = group[g]._currentState
                /\ (p.pc = "timerWrite" /\ p.setAfter /\ q.kind = "none") =>
                      /\ group'[g]._targetState = desired
                      /\ group'[g]._currentState = desired
                /\ (p.pc = "post" /\ q.kind = "none") =>
                      /\ group'[g]._currentState \in {desired, UNAVAILABLE}
                      /\ group'[g]._currentState = desired => group'[g]._targetState = desired
                      /\ group'[g]._currentState = UNAVAILABLE =>
                            group'[g]._targetState =
                               IF p.kind = "toggle" THEN group[g]._targetState ELSE desired
                      /\ SomeRejected(p.reqs) => group'[g]._currentState = UNAVAILABLE]_vars

\* the setAdGuardState of a toggle has just completed with failure (the update of the
\* switches is still deferred): the group is Unavailable, its target the state desired
C16_Witness ==
    \E g \in DOMAIN config :
        /\ Len(toggles) = 1
        /\ toggles[1].outcome = "failed"
        /\ toggles[1].from \in {BLOCKING, DISABLED}
        /\ toggles[1].from # toAGHState(toggles[1].value)
        /\ deferred[g] = 1
        /\ group[g]._currentState = UNAVAILABLE
        /\ group[g]._targetState = toAGHState(toggles[1].value)
        /\ group[g].switches.main = toggles[1].from

\* C16 as stated: when setAdGuardState completes with failure, targetState is the state
\* desired
C16_FailureKeepsDesiredTarget ==
    [][\A sl \in Slots :
          (/\ procs[sl].pc = "post"
           /\ procs'[sl].kind = "none"
           /\ group'[procs[sl].g]._currentState = UNAVAILABLE)
          => group'[procs[sl].g]._targetState = toAGHState(procs[sl].agState)]_vars

\* setAdGuardState(TRUE) of a client-scoped group without services completes with
\* success in slot sl, and no other setAdGuardState of the group was under way meanwhile
EnableSucceeds(sl) ==
    /\ procs[sl].pc = "post"
    /\ procs'[sl].kind = "none"
    /\ procs[sl].agState
    /\ ~procs[sl].overlapped
    /\ ~isGlobal(config[procs[sl].g])
    /\ ~isSelectServices(config[procs[sl].g])
    /\ group'[procs[sl].g]._currentState = BLOCKING

\* C17: when an enable succeeds right after a disable that succeeded, every client that
\* had blocking on before the disable is sent the configuration it had then, and its
\* saved file is removed or being removed
C17_EnableReplaysSaved ==
    [][\A sl \in Slots :
          EnableSucceeds(sl) =>
             \A k \in DOMAIN procs[sl].reqs :
                LET name == procs[sl].reqs[k].client.name
                IN lastDisable[name] # <<>> =>
                      /\ procs[sl].reqs[k].payload.data = lastDisable[name][1]
                      /\ clientStore'[name] = <<>> \/ name \in unlinks']_vars

----------------------------------------------------------------------------
(* Claims about update and getCurrentStatus (SpecPoll) *)

\* a fetch ends in this step and its snapshot goes to update() of every group
Delivers == Len(fetches') < Len(fetches)

\* C18: update(snapshot) called again with the snapshot of the update before it does not
\* render: when a fetch delivers to a group the very snapshot the group was last given,
\* the group stays as it is
C18_SameSnapshotNoRender ==
    [][\A g \in DOMAIN group :
          (Delivers /\ group'[g]._currentStatus = group[g]._currentStatus)
          => group'[g] = group[g]]_vars

\* the field of AdGuardStatus a call fills in
FieldOf(call) == IF call = "status" THEN "enabled" ELSE call

\* what the server answers to a call at this moment
Answered(call) ==
    IF call = "status"
    THEN IF server.protection_enabled THEN "true" ELSE "false"
    ELSE IF call = "blocked_services" THEN server.ids ELSE server.clients

\* a fetch still in flight has had no failure, and holds an answer for exactly the
\* requested calls that are no longer pending
InFlight(f) ==
    /\ f.currentStatus.isAvailable
    /\ f.currentStatus.error = "none"
    /\ f.pending # {}
    /\ f.pending \subseteq pollFlags(config)
    /\ "status" \in pollFlags(config) =>
          (f.currentStatus.enabled = "undefined" <=> "status" \in f.pending)

\* fetch i ends in this step with its last answer
EndsAnswered(i, st) ==
    \E call \in Calls :
        /\ fetches[i].pending = {call}
        /\ st = [fetches[i].currentStatus EXCEPT ![FieldOf(call)] = Answered(call)]
        /\ latest' = [latest EXCEPT ![FieldOf(call)] = Answered(call)]

\* fetch i ends in this step with a failed call
EndsFailed(i, st) ==
    /\ st = [fetches[i].currentStatus EXCEPT !.isAvailable = FALSE, !.error = "error"]
    /\ latest' = latest

\* C19: a fetch delivers a snapshot with isAvailable = true exactly when every
\* requested call was answered (none is pending and none failed); a fetch one of
\* whose calls fails delivers isAvailable = false with the error; and a field of
\* the cache changes only when a requested call for it is answered, so fields not
\* requested stay as cached
C19_FetchSnapshot ==
    /\ [](\A i \in DOMAIN fetches : InFlight(fetches[i]))
    /\ [][/\ \A call \in Calls :
               latest'[FieldOf(call)] # latest[FieldOf(call)] =>
                  /\ call \in pollFlags(config)
                  /\ \E i \in DOMAIN fetches : call \in fetches[i].pending
                  /\ latest'[FieldOf(call)] = Answered(call)
          /\ latest'.isAvailable = latest.isAvailable
          /\ latest'.error = latest.error
          /\ Delivers =>
               \E i \in DOMAIN fetches :
                  LET st == group'[1]._currentStatus
                  IN /\ fetches' = RemoveAt(fetches, i)
                     /\ \A g \in DOMAIN group : group'[g]._currentStatus = st
                     /\ IF st.isAvailable
                        THEN st.error = "none" /\ EndsAnswered(i, st)
                        ELSE EndsFailed(i, st)]_vars

\* a polling fetch failed on its status call after its clients call was answered:
\* the snapshot is unavailable with the error, the cache holds the answer and an
\* older answer for status, and the field not requested is still as cached while
\* the server holds something else
C19_Witness ==
    /\ latest.enabled # "undefined"
    /\ ~group[1]._currentStatus.isAvailable
    /\ group[1]._currentStatus.error = "error"
    /\ group[1]._currentStatus.clients # <<>>
    /\ group[1]._currentStatus.enabled = "undefined"
    /\ latest.clients = group[1]._currentStatus.clients
    /\ latest.blocked_services # server.ids
    /\ fetches = <<>>

----------------------------------------------------------------------------
(* Claims about concurrent handlers of a group (SpecClients) *)

\* the invocations of setAdGuardState of group g that wait for their requests
InFlightSets(g) == {sl \in Slots : procs[sl].pc = "post" /\ procs[sl].g = g}

\* C20: at most one invocation of setAdGuardState is in flight per group at any
\* time, whether it comes from a timer expiry, the restore at launch or a toggle
C20_OneSetStateInFlight ==
    \A g \in DOMAIN config : Cardinality(InFlightSets(g)) <= 1

----------------------------------------------------------------------------
(* Claims about expandTags and the requests of a dispatch (SpecRequests) *)

\* expandTags has run on the selectors of the group
Expanded == probe.fn = "expandTags" /\ probe.done

\* name matches a pattern with one * : what stands before the * begins the name and
\* what stands after it ends the name, the two not overlapping
MatchesStar(pattern, name) ==
    \E s \in 1..Len(pattern) :
        /\ pattern[s] = "*"
        /\ Len(name) >= Len(pattern) - 1
        /\ \A i \in 1..(s - 1) : name[i] = pattern[i]
        /\ \A i \in (s + 1)..Len(pattern) : name[Len(name) - Len(pattern) + i] = pattern[i]

\* token c contributes the name of the cached record at position k (for a literal
\* token, which contributes itself, k is 0)
Contributes(c, k, name) ==
    IF c # <<>> /\ Head(c) = "@"
    THEN /\ k \in 1..Len(latest.clients)
         /\ latest.clients[k].name = name
         /\ Tail(c) \in Range(latest.clients[k].tags)
    ELSE IF "*" \in Range(c)
    THEN /\ k \in 1..Len(latest.clients)
         /\ latest.clients[k].name = name
         /\ MatchesStar(c, name)
    ELSE k = 0 /\ name = c

\* the places (token, cache position) at which a name is contributed
PlacesOf(tokens, name) ==
    {pl \in (1..Len(tokens)) \X (0..Len(latest.clients)) :
        Contributes(tokens[pl[1]], pl[2], name)}

\* place a comes before place b
Earlier(a, b) == a[1] < b[1] \/ (a[1] = b[1] /\ a[2] < b[2])

FirstPlace(tokens, name) ==
    CHOOSE a \in PlacesOf(tokens, name) :
        \A b \in PlacesOf(tokens, name) : a = b \/ Earlier(a, b)

----------------------------------------------------------------------------
(* Claims about startNewTimer and the timer file (Spec) *)

\* no handler of the group is between its first and its last step
Quiescent(g) == \A sl \in Slots : procs[sl].kind = "none" \/ procs[sl].g # g

\* the expiry actions of group g that are pending
Pending(g) == {t \in timers : t.g = g}

\* C22: at every quiescent point the group has a pending expiry action iff its timer
\* file holds a deadline (a number other than 0), and then it has exactly one
C22_PendingIffDeadline ==
    \A g \in DOMAIN config :
        Quiescent(g) =>
           /\ Pending(g) # {} <=> HoldsDeadline(g)
           /\ Cardinality(Pending(g)) <= 1

\* C23: at every moment a group has at most one pending expiry action
C23_AtMostOnePending ==
    \A g \in DOMAIN config : Cardinality(Pending(g)) <= 1

----------------------------------------------------------------------------
(* Claims about a restore that finds no deadline (SpecRestore) *)

\* C24: a restore that finds no file or no number in it goes on to write 0; one that
\* finds 0 ends at once and writes nothing; in these cases nothing is requested of
\* the server, no timer is set, and the group and its switches stay as they are
C24_RestoreWithoutDeadline ==
    [][\A sl \in Slots :
          LET p == procs[sl]
              q == procs'[sl]
              g == p.g
          IN RestoreStep(sl) =>
                /\ (p.pc = "timerRead" /\ ~HoldsDeadline(g)) =>
                      /\ IF timerFile[g] = 0
                         THEN q = NoProc
                         ELSE q = [p EXCEPT !.pc = "timerWrite", !.writing = 0]
                      /\ timerFile' = timerFile
                      /\ timers' = timers
                      /\ server' = server
                      /\ group' = group
                /\ (p.pc = "timerWrite" /\ ~p.setAfter /\ p.minutes = 0) =>
                      /\ q = NoProc
                      /\ timerFile'[g] \in {0, timerFile[g]}
                      /\ timers' = timers
                      /\ server' = server
                      /\ group' = group]_vars

----------------------------------------------------------------------------
(* Claims about the requests of a dispatch over clients (SpecClients) *)

\* the names the selectors of group g resolve to that the cache has a record for
FoundNames(g) ==
    {n \in Range(expandTags(latest.clients, config[g].clients)) :
        \E i \in 1..Len(latest.clients) : latest.clients[i].name = n}

\* the requests of a dispatch that are settled
Settled(reqs) == {k \in DOMAIN reqs : reqs[k].stage \in {"fulfilled", "rejected"}}

\* a request moves on: from the read or the write of the saved configuration to the
\* wire, and from the wire to its result
MovesOn(from, to) ==
    \/ to = from
    \/ from \in {"read", "save"} /\ to = "post"
    \/ from = "post" /\ to \in {"fulfilled", "rejected"}

\* C25: a dispatch over clients starts one request for every resolved client found in
\* the cache; each of them goes on the wire and is settled whatever became of the
\* others, and the dispatch ends only with the last of them; when it has failed the
\* group is Unavailable, the server is left as the requests accepted made it (each
\* client whose request was accepted has the configuration sent for it), and the
\* dispatch requests nothing more
C25_NoRollback ==
    [][\A sl \in Slots :
          LET p == procs[sl]
              q == procs'[sl]
              g == p.g
          IN (p.kind # "none" /\ ~isGlobal(config[g]) /\ Stepped(p, q)) =>
                /\ (p.pc = "timerWrite" /\ q.pc = "post") =>
                      /\ {q.reqs[k].client.name : k \in DOMAIN q.reqs} = FoundNames(g)
                      /\ Len(q.reqs) = Cardinality(FoundNames(g))
                      /\ server' = server
                /\ (p.pc = "post" /\ q.kind # "none") =>
                      /\ DOMAIN q.reqs = DOMAIN p.reqs
                      /\ \A k \in DOMAIN p.reqs :
                            /\ q.reqs[k].client = p.reqs[k].client
                            /\ MovesOn(p.reqs[k].stage, q.reqs[k].stage)
                            /\ p.reqs[k].stage = "post" => q.reqs[k].payload = p.reqs[k].payload
                /\ (p.pc = "post" /\ q.kind = "none") =>
                      \E last \in DOMAIN p.reqs :
                         /\ p.reqs[last].stage = "post"
                         /\ Settled(p.reqs) = DOMAIN p.reqs \ {last}
                         /\ server' \in {server, applyPost(server, p.reqs[last].payload)}
                         /\ SomeRejected(p.reqs) => group'[g]._currentState = UNAVAILABLE
                         /\ (group'[g]._currentState = UNAVAILABLE /\ ~p.overlapped) =>
                               \A k \in Settled(p.reqs) :
                                  p.reqs[k].stage = "fulfilled" =>
                                     recordNamed(server'.clients, p.reqs[k].payload.name)
                                        = <<p.reqs[k].payload.data>>]_vars

\* the group over kid and tv1 was switched off: the request for kid was rejected, the
\* one for tv1 accepted; the toggle has failed, the group is Unavailable, kid is as it
\* was set up and tv1 stays switched off at the server
C25_Witness ==
    \E g \in DOMAIN config, i \in DOMAIN toggles :
        /\ toggles[i].g = g
        /\ toggles[i].outcome = "failed"
        /\ ~toggles[i].value
        /\ group[g]._currentState = UNAVAILABLE
        /\ \A sl \in Slots : procs[sl].kind = "none"
        /\ ~isSelectServices(config[g])
        /\ server.clients = <<KidSetUp, setBlockingConfig(FilteringOn(Tv1, <<>>), FALSE)>>

\* setAdGuardState(probe.enabled) has started the requests in probe.result
Dispatched == probe.fn = "setAdGuardState" /\ probe.done

\* C26: a mutation of a global group with services starts exactly one request, which
\* replaces the global list of blocked services; the list sent is, as a set, the
\* cached list united with the selected services when enabling and the cached list
\* less the selected services when disabling, so that a cached service that is not
\* selected is always in it
C26_GlobalServices ==
    (Dispatched /\ isGlobal(config[1]) /\ isSelectServices(config[1])) =>
       LET cached == Range(latest.blocked_services)
           selected == Range(config[1].services)
       IN /\ Len(probe.result) = 1
          /\ probe.result[1].stage = "post"
          /\ probe.result[1].payload.api = "blocked_services/update"
          /\ Range(probe.result[1].payload.ids) =
                IF probe.enabled THEN cached \cup selected ELSE cached \ selected
          /\ cached \ selected \subseteq Range(probe.result[1].payload.ids)

\* enabling a group that selects ads while the cache lists tracking: one request,
\* sending tracking and ads
C26_Witness ==
    /\ Dispatched
    /\ isGlobal(config[1])
    /\ config[1].services = <<"ads">>
    /\ latest.blocked_services = <<"tracking">>
    /\ probe.enabled
    /\ probe.result[1].payload.ids = <<"tracking", "ads">>

\* C27: a mutation of a client-scoped group with services starts exactly one request
\* for every resolved client the cache has a record for, and none for any other; each
\* is a clients/update carrying the cached record of its client with nothing changed
\* but blocked_services, which is, as a set, the client's own cached list united with
\* the selected services when enabling and less the selected services when disabling
C27_ClientServices ==
    (Dispatched /\ ~isGlobal(config[1]) /\ isSelectServices(config[1])) =>
       LET selected == Range(config[1].services)
       IN /\ Len(probe.result) = Cardinality(FoundNames(1))
          /\ {probe.result[k].payload.name : k \in DOMAIN probe.result} = FoundNames(1)
          /\ \A k \in DOMAIN probe.result :
                LET sent == probe.result[k].payload
                    rec == RecordOf(latest, sent.name)
                    own == Range(rec.blocked_services)
                IN /\ probe.result[k].stage = "post"
                   /\ sent.api = "clients/update"
                   /\ sent.data.name = sent.name
                   /\ [sent.data EXCEPT !.blocked_services = rec.blocked_services] = rec
                   /\ Range(sent.data.blocked_services) =
                         IF probe.enabled THEN own \cup selected ELSE own \ selected

\* the group selects @family and ads; the cache has kid (tagged family, blocking
\* tracking) and tv1: enabling starts one request, for kid, with tracking and ads
C27_Witness ==
    /\ Dispatched
    /\ config[1].clients = <<AtFamily>>
    /\ config[1].services = <<"ads">>
    /\ probe.enabled
    /\ Len(latest.clients) = 2
    /\ Len(probe.result) = 1
    /\ probe.result[1].payload.name = Kid
    /\ probe.result[1].payload.data.blocked_services = <<"tracking", "ads">>

----------------------------------------------------------------------------
(* Claims about the saved configuration of a client (SpecClients) *)

\* every field of the record that has a say in blocking is off
AllOff(rec) ==
    /\ ~rec.use_global_settings
    /\ ~rec.use_global_blocked_services
    /\ rec.blocked_services = <<>>
    /\ ~rec.filtering_enabled
    /\ ~rec.parental_enabled
    /\ ~rec.safebrowsing_enabled
    /\ ~rec.safesearch_enabled
    /\ rec.safe_search # "on"

\* the invocation in slot sl disables a client-scoped group without services
DisablesClients(sl) ==
    /\ procs[sl].kind # "none"
    /\ ~procs[sl].agState
    /\ ~isGlobal(config[procs[sl].g])
    /\ ~isSelectServices(config[procs[sl].g])

\* C28: disabling a client-scoped group without services, for every resolved client
\* found in the cache: when the cached configuration has blocking enabled its save is
\* started first, with nothing sent, and the request goes out only when the save has
\* ended, the slot then holding the whole cached configuration (or, the write having
\* failed, what it held); when it has not, the request goes out at once and the
\* dispatch never writes the slot; the configuration sent is the cached one with every
\* blocking-related field off
C28_SaveBeforeDisable ==
    [][\A sl \in Slots :
          LET p == procs[sl]
              q == procs'[sl]
          IN (DisablesClients(sl) /\ Stepped(p, q)) =>
                /\ (p.pc = "timerWrite" /\ q.pc = "post") =>
                      /\ clientStore' = clientStore
                      /\ \A k \in DOMAIN q.reqs :
                            /\ q.reqs[k].client = RecordOf(latest, q.reqs[k].client.name)
                            /\ q.reqs[k].stage =
                                  IF EnabledByEight(q.reqs[k].client) THEN "save" ELSE "post"
                /\ (p.pc = "post" /\ q.kind # "none") =>
                      \A k \in DOMAIN p.reqs :
                         LET cc == p.reqs[k].client
                         IN /\ (p.reqs[k].stage = "save" /\ q.reqs[k].stage # "save") =>
                                  /\ q.reqs[k].stage = "post"
                                  /\ clientStore'[cc.name] \in {<<cc>>, clientStore[cc.name]}
                                  /\ server' = server
                            /\ (p.reqs[k].stage # "save" \/ q.reqs[k].stage = "save") =>
                                  clientStore'[cc.name] = clientStore[cc.name]
                /\ (p.pc = "post" /\ q.kind = "none") => clientStore' = clientStore
                /\ q.pc = "post" =>
                      \A k \in DOMAIN q.reqs :
                         LET cc == q.reqs[k].client
                             sent == q.reqs[k].payload
                         IN q.reqs[k].stage # "save" =>
                               /\ sent.api = "clients/update"
                               /\ sent.name = cc.name
                               /\ AllOff(sent.data)
                               /\ sent.data.name = cc.name
                               /\ sent.data.tags = cc.tags]_vars

\* kid, blocking ads, is being switched off: its configuration is in the save slot
\* and the request for it is on the wire, the server still holding the configuration
C28_Witness ==
    \E sl \in Slots, k \in 1..2 :
        /\ DisablesClients(sl)
        /\ procs[sl].pc = "post"
        /\ k \in DOMAIN procs[sl].reqs
        /\ procs[sl].reqs[k].client = KidSetUp
        /\ procs[sl].reqs[k].stage = "post"
        /\ clientStore[Kid] = <<KidSetUp>>
        /\ recordNamed(server.clients, Kid) = <<KidSetUp>>

----------------------------------------------------------------------------
(* Claims about setBlockingConfig (SpecRequests) *)

\* setBlockingConfig(cached record of kid, true) has been computed
Synthesized == probe.fn = "setBlockingConfig" /\ probe.done /\ probe.enabled

\* C29: the configuration made up to enable a client that has no saved one: when the
\* cached record has blocking enabled, every flag that is on in it is on in the
\* configuration sent, every service it blocks is blocked in it, and it has blocking
\* enabled; when the cached record has none, the configuration sent has
\* use_global_settings and use_global_blocked_services on
C29_EnablePreservesSignal ==
    Synthesized =>
       LET cc == latest.clients[1]
           sent == probe.result
       IN IF EnabledByEight(cc)
          THEN /\ \A f \in FlagNames : cc[f] => sent[f]
               /\ cc.safe_search = "on" => sent.safe_search = "on"
               /\ Range(cc.blocked_services) \subseteq Range(sent.blocked_services)
               /\ EnabledByEight(sent)
          ELSE sent.use_global_settings /\ sent.use_global_blocked_services

\* an enable dispatch of a client-scoped group without services is under way and has
\* read the saved configuration of the client named name
EnableHasRead(name) ==
    \E sl \in Slots, k \in 1..2 :
        /\ procs[sl].pc = "post"
        /\ procs[sl].agState
        /\ k \in DOMAIN procs[sl].reqs
        /\ procs[sl].reqs[k].client.name = name
        /\ procs[sl].reqs[k].stage # "read"
        /\ ~isGlobal(config[procs[sl].g]) /\ ~isSelectServices(config[procs[sl].g])

\* a disable dispatch ends the save of the cached record of the client named name
DisableSaves(name) ==
    \E sl \in Slots, k \in 1..2 :
        /\ DisablesClients(sl)
        /\ procs[sl].pc = "post"
        /\ k \in DOMAIN procs[sl].reqs
        /\ procs[sl].reqs[k].client.name = name
        /\ procs[sl].reqs[k].stage = "save"
        /\ procs'[sl].reqs[k].stage = "post"
        /\ EnabledByEight(procs[sl].reqs[k].client)
        /\ clientStore'[name] = <<procs[sl].reqs[k].client>>

\* C30: every configuration held in a save slot has blocking enabled; a slot is
\* written only by a disable dispatch, with the cached record of a client that has
\* blocking enabled, and is cleared only while an enable dispatch that has read it is
\* under way
C30_SaveSlot ==
    /\ [](\A name \in ClientNames :
             clientStore[name] # <<>> => EnabledByEight(clientStore[name][1]))
    /\ [][\A name \in ClientNames :
             clientStore'[name] # clientStore[name] =>
                IF clientStore'[name] = <<>> THEN EnableHasRead(name)
                ELSE DisableSaves(name)]_vars

----------------------------------------------------------------------------
(* Claims about the requests of a tick (Spec) *)

\* a tick of the polling loop: a getCurrentStatus call is started
Ticks == Len(fetches') = Len(fetches) + 1

----------------------------------------------------------------------------
(* Claims about a propagation that fails (SpecPropagate) *)

\* a tick in which updateSwitchGroups threw
ThrowingTick == probe'.ticks = probe.ticks + 1

\* the state of group g when the first run of a tick has thrown at group k1
AfterFirstRun(g, k1) ==
    IF g < k1 THEN getStateFromAdGuardStatus(config[g], latest'.clients, probe'.status)
    ELSE group[g]._currentState

\* C32: when the propagation of a tick's snapshot throws at some group, it is run once
\* more with the snapshot marked unavailable: if that run does not throw, every group is
\* Unavailable and shows it, the groups updated before the failure included; if it throws
\* at a group, the groups before that one are Unavailable, and that group and those after
\* it keep what the first run left them: nothing is run a third time.
C32_RerunOnce ==
    [][ThrowingTick =>
        LET k1 == probe'.thrown[1]
            k2 == probe'.thrown[2]
            forced == [probe'.status EXCEPT !.isAvailable = FALSE]
            reached == {g \in DOMAIN group : k2 = 0 \/ g < k2}
        IN /\ k1 \in DOMAIN group
           /\ Len(fetches') = Len(fetches) - 1
           /\ \A g \in reached :
                /\ group'[g]._currentState = UNAVAILABLE
                /\ group'[g].switches.main = UNAVAILABLE
                /\ group'[g]._currentStatus = forced
           /\ \A g \in DOMAIN group \ reached :
                /\ group'[g]._currentState = AfterFirstRun(g, k1)
                /\ g > k2 => group'[g].switches.main = AfterFirstRun(g, k1)
                /\ g = k2 => group'[g]._currentState # UNAVAILABLE]_vars

\* the update of the second group threw on an available snapshot, the first group having
\* been updated; the re-run has made both groups Unavailable
C32_Witness ==
    /\ probe.ticks = 1
    /\ probe.thrown = <<2, 0>>
    /\ probe.status.isAvailable
    /\ getStateFromAdGuardStatus(config[1], latest.clients, probe.status) = BLOCKING
    /\ fetches = <<>>
    /\ \A g \in DOMAIN group : group[g]._currentState = UNAVAILABLE

----------------------------------------------------------------------------
(* Claims about the groups discoverDevices constructs (SpecDiscover) *)

Launched_Groups == probe.fn = "didFinishLaunching" /\ probe.done

\* C33: any two distinct switch group instances have different timer files, the sibling
\* groups of a non-bridged switch with several timeout values and the groups whose names
\* differ only in non-alphanumeric characters included.
C33_DisjointTimerSlots ==
    Launched_Groups =>
        \A m \in DOMAIN probe.switchGroups, n \in DOMAIN probe.switchGroups :
            m # n => probe.switchGroups[m].timerFile # probe.switchGroups[n].timerFile

\* C34: when a configured switch has a timeout value that is no non-negative integer, the
\* group of that value is not constructed and nothing else is affected: every other group
\* is constructed, the polling loop is started and the timers of the other groups are
\* restored.
C34_OnlyOffendingGroupFails ==
    Launched_Groups =>
        LET planned == plannedGroups(probe.switches, 1)
            good == {n \in DOMAIN planned : ~constructorThrows(planned[n].autoResetTimes, 1)}
        IN /\ probe.polling
           /\ \A n \in DOMAIN planned :
                n \in good <=>
                    \E m \in DOMAIN probe.switchGroups :
                        /\ probe.switchGroups[m] = planned[n]
                        /\ m \in probe.restoring

----------------------------------------------------------------------------
(* Claims about failures of the network and of the storage (Spec) *)

\* how far a handler invocation has come: the file operations in their order, then the
\* requests of its dispatch, each waiting for its file, on the wire, or settled
Progress(p) ==
    LET stageAt(k) == IF p.reqs[k].stage \in {"read", "save"} THEN 0
                      ELSE IF p.reqs[k].stage = "post" THEN 1 ELSE 2
        RECURSIVE sum(_)
        sum(k) == IF k = 0 THEN 0 ELSE stageAt(k) + sum(k - 1)
    IN IF p.pc = "timerRead" THEN 0
       ELSE IF p.pc = "timerWrite" THEN (IF p.kind = "restore" /\ p.setAfter THEN 2 ELSE 1)
       ELSE IF p.pc = "post" THEN 3 + sum(Len(p.reqs))
       ELSE 3 + 2 * Cardinality(ClientNames) + 1

\* a request of a fetch or of a dispatch, a read of the timer file, a read or a write of
\* a client file under way may fail, and the handler that waits for it then goes on
FailureIsAStep ==
    /\ \A i \in DOMAIN fetches : \A call \in fetches[i].pending : ENABLED FetchFail(i, call)
    /\ \A sl \in Slots :
        /\ procs[sl].pc = "timerRead" => ENABLED TimerReadDone(sl, FALSE)
        /\ procs[sl].pc = "post" =>
            /\ \E k \in DOMAIN procs[sl].reqs : procs[sl].reqs[k].stage \in {"read", "save", "post"}
            /\ \A k \in DOMAIN procs[sl].reqs :
                /\ procs[sl].reqs[k].stage = "read" => ENABLED ClientReadDone(sl, k, FALSE)
                /\ procs[sl].reqs[k].stage = "save" => ENABLED ClientSaveDone(sl, k, FALSE)
                /\ procs[sl].reqs[k].stage = "post" => ENABLED PostDone(sl, k, FALSE)

----------------------------------------------------------------------------
(* Claims about the reconciliation of a group after a mutation (SpecReconcile) *)

\* a mutation of group g (a toggle, a timer expiry or a restore) ends in this step
MutationEnds(g) ==
    \E sl \in Slots : procs[sl].g = g /\ procs[sl].pc \in {"timerWrite", "post"}
                      /\ procs[sl].setAfter /\ procs'[sl].kind = "none"

\* a toggle of group g has run to its end, succeeded or failed
Toggled(g) ==
    \E n \in DOMAIN toggles : toggles[n].g = g /\ toggles[n].outcome \in {"succeeded", "failed"}

\* C36: after a toggle of a group, succeeded or failed, a tick that delivers an
\* available snapshot leaves the group with the state derived from that snapshot,
\* whatever state the toggle had left (Unavailable included), and the state then stays
\* until a mutation ends or another snapshot is delivered.
C36_ReconciledByNextTick ==
    [][\A g \in DOMAIN group :
          /\ Delivers /\ Toggled(g) /\ group'[g]._currentStatus.isAvailable =>
                group'[g]._currentState =
                    getStateFromAdGuardStatus(config[g], group'[g]._currentStatus.clients,
                                              group'[g]._currentStatus)
          /\ group'[g]._currentState # group[g]._currentState => Delivers \/ MutationEnds(g)]_vars

----------------------------------------------------------------------------
(* Claims about the target of a group at rest (Spec) *)

\* a setAdGuardState of group g has assigned its target and is awaiting its requests
SetInFlight(g) == \E sl \in Slots : procs[sl].g = g /\ procs[sl].pc = "post"

----------------------------------------------------------------------------
(* Claims about a sequence of toggles of a client-scoped group (SpecClients) *)

\* the run began after a first disable of the group: the one client of the server was
\* saved as the administrator had set it up, and disabled
AfterFirstDisable == Len(server.clients) = 1 /\ server.clients[1].name = Kid

\* C38: in a sequence disable, enable, disable, enable of successful mutations of a
\* client-scoped group without services, the second enable too sends the client the
\* configuration it had before the first disable: when an enable succeeds after a disable
\* that succeeded while the server held that configuration again (the first enable had
\* replayed it), the enable sends that configuration.
C38_LaterEnableReplaysOriginal ==
    [][\A sl \in Slots :
          EnableSucceeds(sl) /\ AfterFirstDisable /\ lastDisable[Kid] = <<KidSetUp>> =>
             \A k \in DOMAIN procs[sl].reqs :
                procs[sl].reqs[k].client.name = Kid => procs[sl].reqs[k].payload.data = KidSetUp]_vars

\* C39: when the request that replays a saved configuration is rejected, the
\* configuration stays in the save slot of the client: in a run that began with the
\* client disabled and its configuration saved, once the user's enable has failed with
\* the client still disabled at the server and nothing is under way, the slot still
\* holds the configuration.
C39_FailedReplayKeepsSaved ==
    (/\ AfterFirstDisable
     /\ server.clients[1] = KidDisabled
     /\ \E n \in DOMAIN toggles : toggles[n].value /\ toggles[n].outcome = "failed"
     /\ \A sl \in Slots : procs[sl].kind = "none")
    => clientStore[Kid] = <<KidSetUp>>

----------------------------------------------------------------------------
(* Claims about a dispatch that finds no client (Spec) *)

\* none of the names the selectors of group g expand to is in the cached client list
NoCachedClient(g) ==
    LET names == expandTags(latest.clients, config[g].clients)
    IN \A i \in 1..Len(names) : findClient(latest.clients, names[i]) = 0

\* setAdGuardState of the invocation in slot sl is called in this step
SetCalled(sl) ==
    /\ procs[sl].pc = "timerWrite"
    /\ procs[sl].setAfter
    /\ Stepped(procs[sl], procs'[sl])

\* C40: setAdGuardState of a client-scoped group none of whose resolved clients is in the
\* cached client list sends no request and is over at once, reporting success: the
\* server is left as it is, and currentState and targetState are the desired state.
C40_NothingFoundSucceeds ==
    [][\A sl \in Slots :
          LET g == procs[sl].g
              desired == toAGHState(procs[sl].agState)
          IN SetCalled(sl) /\ ~isGlobal(config[g]) /\ NoCachedClient(g) =>
                /\ procs'[sl] = NoProc
                /\ server' = server
                /\ group'[g]._currentState = desired
                /\ group'[g]._targetState = desired
                /\ procs[sl].kind = "toggle" => toggles'[procs[sl].toggle].outcome = "succeeded"]_vars

\* a toggle of a client-scoped group over a server without the clients it names has
\* succeeded and moved the group, with no request sent and the server as it was
C40_Witness ==
    /\ ~isGlobal(config[1])
    /\ NoCachedClient(1)
    /\ \E n \in DOMAIN toggles :
          /\ toggles[n].outcome = "succeeded"
          /\ toggles[n].from # toAGHState(toggles[n].value)
          /\ group[1]._currentState = toAGHState(toggles[n].value)
          /\ group[1]._targetState = toAGHState(toggles[n].value)
    /\ server = ServerState(TRUE, <<>>, <<>>)

====
